---- MODULE Spec2Model ----
(***************************************************************************)
(* Model of the ModelViewer component of step-render                       *)
(* (web/my-app/src/components/model-viewer.tsx, the version with component *)
(* picking, lines 204-570).                                                *)
(*                                                                         *)
(* One mounted component instance is modelled.  Every run of the effect    *)
(* body creates a "session": the closure holding scene, camera, renderer,  *)
(* controls, handlers, the highlight-material template and the async       *)
(* loadModel call.  Sessions are numbered 1, 2, ... in creation order.     *)
(* React state (loading, error, hoveredComponent) and the refs belong to   *)
(* the component, not to a session.  Each callback runs to completion, so  *)
(* each action is one callback.                                            *)
(***************************************************************************)
EXTENDS Integers, Sequences, FiniteSets, TLC

(* ---------------- bounds ---------------- *)
MaxSessions == 2
NMesh == 2
MaxHits == 2

(* ---------------- inputs ---------------- *)
Ids == {"A", "B"}
Sessions == 1..MaxSessions
MeshIdx == 1..NMesh
Meshes == Sessions \X MeshIdx
NullMesh == <<0, 0>>
NoSession == 0

(* Materials are objects, identified by a number: the materials a decoded  *)
(* asset comes with are positive, clones of the highlight template are     *)
(* negative.  A clone that no mesh references any more is garbage and its  *)
(* number is given to the next clone.                                      *)
Orig(n) == n
Clone(n) == 0 - n
IsClone(mat) == mat < 0
(* the value of mesh.material / userData.originalMaterial: one material     *)
(* or an array of materials; Absent is undefined                            *)
Single(m) == [arr |-> FALSE, mats |-> <<m>>]
Array(ms) == [arr |-> TRUE, mats |-> ms]
Absent == [arr |-> FALSE, mats |-> <<>>]
MatsOf(v) == {v.mats[i] : i \in 1..Len(v.mats)}

(* The decoded scene of asset u as session s receives it: NMesh meshes.     *)
(* Asset "A": every mesh shares one material object.  Asset "B": mesh 1 has *)
(* a material array, the other meshes one material each.                    *)
GltfMaterial(u, s, m) ==
  IF u = "A" THEN Single(Orig(10 * s))
  ELSE IF m = 1 THEN Array(<<Orig(10 * s + 1), Orig(10 * s + 2)>>)
  ELSE Single(Orig(10 * s + m + 1))

(* ---------------- normalisation, lines 439-449 ---------------- *)
(* A JavaScript number is a fraction <<n, d>> in lowest terms with d > 0;  *)
(* d = 0 holds the IEEE-754 results of a division by zero: <<1, 0>> is     *)
(* Infinity, <<-1, 0>> is -Infinity and <<0, 0>> is NaN.                   *)
Abs(n) == IF n < 0 THEN 0 - n ELSE n
Sign(n) == IF n > 0 THEN 1 ELSE IF n < 0 THEN 0 - 1 ELSE 0

RECURSIVE Gcd(_, _)
Gcd(a, b) == IF b = 0 THEN a ELSE Gcd(b, a % b)

(* the number n / d, for integers n and d >= 0 *)
Frac(n, d) ==
  IF d = 0 THEN <<Sign(n), 0>>
  ELSE <<n \div Gcd(Abs(n), d), d \div Gcd(Abs(n), d)>>

(* the bounding box of the decoded scene of asset u: its size and centre.  *)
(* Every vertex of asset "B" lies on the point (1, 0, 0).                  *)
GltfBox(u) ==
  IF u = "A" THEN [size |-> <<2, 10, 4>>, center |-> <<1, 5, 2>>]
  ELSE [size |-> <<0, 0, 0>>, center |-> <<1, 0, 0>>]

(* Math.max(size.x, size.y, size.z), line 443 *)
MaxDim(size) ==
  CHOOSE m \in {size[i] : i \in 1..3} : \A i \in 1..3 : size[i] <= m

(* faulty variant: moves the root by the centre, not by the scaled centre *)
Normalize_UnscaledOffset(box) ==
  [scale |-> [i \in 1..3 |-> Frac(5, MaxDim(box.size))],
   position |-> [i \in 1..3 |-> Frac(0 - box.center[i], 1)]]

(* lines 444-449: scale = 5 / maxDim; the root, whose scale is (1, 1, 1)   *)
(* and whose position is (0, 0, 0), is scaled by it and moved by the       *)
(* scaled centre                                                           *)
Normalize(box) ==
  [scale |-> [i \in 1..3 |-> Frac(5, MaxDim(box.size))],
   position |-> [i \in 1..3 |-> Frac(0 - box.center[i] * 5, MaxDim(box.size))]]

(* gltf.scene does not exist before the decode *)
NoVec == <<>>

PosDefault == <<5, 5, 5>>
PosMoved == <<1, 2, 3>>
Origin == <<0, 0, 0>>
TargetMoved == <<1, 0, 0>>

NoError == "null"
(* the messages handed to setError: line 407's message, the message of a   *)
(* rejection caught on line 500, and line 494's message                    *)
ErrStatus == "Failed to fetch download URL: 500"
ErrRejected == "Failed to fetch"
ErrDecode == "Failed to load 3D model: "
NoHover == [uuid |-> NullMesh, name |-> "", nodeId |-> -1,
            meshIndex |-> -1, childCount |-> 0]

VARIABLES
  containerRef,        \* containerRef.current is non-null
  children,            \* canvases (by session) that are children of the container
  loading, error, hoveredComponent,   \* React state, the published outputs
  sceneRef, cameraRef, \* refs: session whose scene / camera they point to
  highlightedMeshRef,  \* mesh or NullMesh
  nSessions,           \* number of effect runs so far
  live,                \* sessions whose effect is set up and not cleaned up
  uuid,                \* uuid prop captured by each session
  pc,                  \* position of each session's loadModel
  decodeStarted,       \* sessions that called loader.load
  fetchCalls,          \* per session: number of fetch(...) calls of the lookup
  loadCalls,           \* per session: number of loader.load(...) calls
  rootScale, rootPos,  \* per session: gltf.scene.scale / position (per axis)
  sceneModel,          \* per scene: the session whose decoded gltf.scene is its 'model'
  cameraPos, target,   \* per session: camera.position, controls.target
  resizeReg, pointerReg, \* sessions whose handlers are registered
  raf,                 \* sessions whose animate callback is scheduled
  rendererDisposed, templateDisposed,
  material,            \* mesh.material per mesh (Absent: mesh not created)
  originalMaterial,    \* mesh.userData.originalMaterial per mesh
  metadataUD,          \* sessions whose meshes got userData.metadata attached
  disposed,            \* live materials on which dispose() was called
  call                 \* the operation under examination, with what it
                       \* was given and what it did

(* no operation is under examination *)
NoCall == [fn |-> "none"]

(* the state of the mounted viewer *)
viewerVars ==
  <<containerRef, children, loading, error, hoveredComponent, sceneRef,
    cameraRef, highlightedMeshRef, nSessions, live, uuid, pc,
    decodeStarted, sceneModel, cameraPos, target, resizeReg, pointerReg,
    raf, rendererDisposed, templateDisposed, material,
    originalMaterial, metadataUD, disposed, fetchCalls, loadCalls,
    rootScale, rootPos>>

vars == <<viewerVars, call>>

(* ---------------- highlight operations ---------------- *)
(* The highlight state the three closures read and write, as one record.   *)
HL == [material |-> material, originalMaterial |-> originalMaterial,
       highlightedMeshRef |-> highlightedMeshRef,
       hoveredComponent |-> hoveredComponent,
       disposed |-> disposed,
       clones |-> 0]

(* disposeMaterial, lines 292-298 *)
disposeMaterial(h, v) == [h EXCEPT !.disposed = @ \cup MatsOf(v)]

(* faulty variant: disposes and clears the slot, does not reassign *)
revertHighlight_NoRestore(h, mesh) ==
  IF h.originalMaterial[mesh] = Absent THEN h
  ELSE [disposeMaterial(h, h.material[mesh]) EXCEPT
          !.originalMaterial[mesh] = Absent]

(* faulty variant: disposes the saved original instead of the highlight *)
revertHighlight_DisposesSaved(h, mesh) ==
  IF h.originalMaterial[mesh] = Absent THEN h
  ELSE [disposeMaterial(h, h.originalMaterial[mesh]) EXCEPT
          !.material[mesh] = h.originalMaterial[mesh],
          !.originalMaterial[mesh] = Absent]

(* revertHighlight, lines 300-305 *)
revertHighlight(h, mesh) ==
  IF h.originalMaterial[mesh] = Absent THEN h
  ELSE [disposeMaterial(h, h.material[mesh]) EXCEPT
          !.material[mesh] = h.originalMaterial[mesh],
          !.originalMaterial[mesh] = Absent]

(* defaultComponentInfo, lines 307-313; -1 stands for null *)
defaultComponentInfo(mesh, name, nchildren) ==
  [uuid |-> mesh,
   name |-> IF name # "" THEN name ELSE "Unnamed component",
   nodeId |-> -1, meshIndex |-> -1, childCount |-> nchildren]

(* mesh names and child counts in the decoded scene of asset u *)
GltfMeshName(u, m) == IF m = 1 THEN u ELSE ""
GltfMeshChildren(u, m) == IF u = "B" /\ m = 1 THEN 1 ELSE 0

(* ---------------- metadata correlation, lines 430-437, 456-468 -------- *)
(* null / undefined of an optional number *)
Null == 0 - 1

(* A record of gltfNodeMetadataSchema: id and mesh are Null when absent,   *)
(* name is "" when absent or empty (the code tests it for truthiness       *)
(* only), children.has tells whether the child list is there.             *)
NodeRecord(id, name, mesh, has, ids) ==
  [id |-> id, name |-> name, mesh |-> mesh,
   children |-> [has |-> has, ids |-> ids]]

(* the metadata prop: null, an object without nodes, or one with nodes *)
NullMetadata == [present |-> FALSE, hasNodes |-> FALSE, nodes |-> <<>>]
NoNodesMetadata == [present |-> TRUE, hasNodes |-> FALSE, nodes |-> <<>>]
NodesMetadata(nodes) == [present |-> TRUE, hasNodes |-> TRUE, nodes |-> nodes]

(* faulty variant: tests the id for truthiness, so the id 0 counts as     *)
(* absent                                                                  *)
NodeKey_TruthyId(node) ==
  IF node.name # "" THEN node.name
  ELSE IF node.id # Null /\ node.id # 0 THEN "node_" \o ToString(node.id)
  ELSE ""

(* the key line 432-436 files a record under; "" when it files it nowhere *)
NodeKey(node) ==
  IF node.name # "" THEN node.name
  ELSE IF node.id # Null THEN "node_" \o ToString(node.id)
  ELSE ""

(* the Map after forEach has visited the first n records: a later record   *)
(* replaces an earlier one with the same key                               *)
RECURSIVE IndexNodes(_, _)
IndexNodes(nodes, n) ==
  IF n = 0 THEN [k \in {} |-> 0]
  ELSE LET m == IndexNodes(nodes, n - 1)
           key == NodeKey(nodes[n])
       IN IF key = "" THEN m
          ELSE [k \in DOMAIN m \cup {key} |->
                  IF k = key THEN nodes[n] ELSE m[k]]

(* metadataByName, lines 430-437 *)
metadataByName(md) ==
  IF md.present /\ md.hasNodes THEN IndexNodes(md.nodes, Len(md.nodes))
  ELSE [k \in {} |-> 0]

(* faulty variant: an unmatched mesh gets child count 0 *)
componentInfo_ZeroChildCount(index, mesh, name, nchildren) ==
  LET found == name \in DOMAIN index
      nodeMeta == index[name]
  IN [uuid |-> mesh,
      name |-> IF name # "" THEN name
               ELSE IF found /\ nodeMeta.name # "" THEN nodeMeta.name
               ELSE "Unnamed component",
      nodeId |-> IF found THEN nodeMeta.id ELSE Null,
      meshIndex |-> IF found THEN nodeMeta.mesh ELSE Null,
      childCount |-> IF found /\ nodeMeta.children.has
                     THEN Len(nodeMeta.children.ids)
                     ELSE IF found THEN nchildren ELSE 0]

(* faulty variant: the record's id and mesh are stored the wrong way round *)
componentInfo_SwapsIds(index, mesh, name, nchildren) ==
  LET found == name \in DOMAIN index
      nodeMeta == index[name]
  IN [uuid |-> mesh,
      name |-> IF name # "" THEN name
               ELSE IF found /\ nodeMeta.name # "" THEN nodeMeta.name
               ELSE "Unnamed component",
      nodeId |-> IF found THEN nodeMeta.mesh ELSE Null,
      meshIndex |-> IF found THEN nodeMeta.id ELSE Null,
      childCount |-> IF found /\ nodeMeta.children.has
                     THEN Len(nodeMeta.children.ids) ELSE nchildren]

(* lines 458-466 for one mesh with the given uuid, name and number of      *)
(* child nodes                                                             *)
componentInfo(index, mesh, name, nchildren) ==
  LET found == name \in DOMAIN index
      nodeMeta == index[name]
  IN [uuid |-> mesh,
      name |-> IF name # "" THEN name
               ELSE IF found /\ nodeMeta.name # "" THEN nodeMeta.name
               ELSE "Unnamed component",
      nodeId |-> IF found THEN nodeMeta.id ELSE Null,
      meshIndex |-> IF found THEN nodeMeta.mesh ELSE Null,
      childCount |-> IF found /\ nodeMeta.children.has
                     THEN Len(nodeMeta.children.ids) ELSE nchildren]

(* file.metadata_json of the file with identifier u, which FilePage hands  *)
(* to the viewer together with u: file "A" has a record for the mesh named *)
(* "A", file "B" has no metadata                                           *)
FileMetadata(u) ==
  IF u = "A"
  THEN NodesMetadata(<<NodeRecord(1, "A", 0, TRUE, <<2, 3>>)>>)
  ELSE NullMetadata

(* ComponentHoverInfo attached to a mesh at load time, lines 456-468 *)
ComponentInfo(u, mesh) ==
  componentInfo(metadataByName(FileMetadata(u)), mesh,
                GltfMeshName(u, mesh[2]), GltfMeshChildren(u, mesh[2]))

(* faulty variant: publishes the mesh-only defaults for every mesh *)
MetadataPayload_Default(mesh) ==
  defaultComponentInfo(mesh, GltfMeshName(uuid[mesh[1]], mesh[2]),
                       GltfMeshChildren(uuid[mesh[1]], mesh[2]))

(* mesh.userData.metadata || defaultComponentInfo(mesh) *)
MetadataPayload(mesh) ==
  IF mesh[1] \in metadataUD THEN ComponentInfo(uuid[mesh[1]], mesh)
  ELSE defaultComponentInfo(mesh, GltfMeshName(uuid[mesh[1]], mesh[2]),
                            GltfMeshChildren(uuid[mesh[1]], mesh[2]))

(* materials referenced by some mesh, as material or as saved original *)
Referenced(h) ==
  UNION {MatsOf(h.material[m]) \cup MatsOf(h.originalMaterial[m]) : m \in Meshes}

(* the i-th free clone number *)
NthFree(R, i) ==
  CHOOSE n \in 1..(Cardinality(R) + i) :
    /\ Clone(n) \notin R
    /\ Cardinality({j \in 1..n : Clone(j) \notin R}) = i

(* mesh.material.map(() => template.clone()) / template.clone(): one new   *)
(* material object per slot                                                *)
CloneFor(h, v) ==
  [arr |-> v.arr,
   mats |-> [i \in 1..Len(v.mats) |-> Clone(NthFree(Referenced(h), i))]]

(* highlightMaterialTemplate of session s, line 285: a material object     *)
(* that no asset comes with and that is no clone                           *)
highlightMaterialTemplate(s) == Orig(1000 * s)

(* faulty variant: gives the mesh the template itself, not clones of it *)
applyHighlight_UsesTemplate(h, mesh) ==
  IF h.highlightedMeshRef = mesh
  THEN [h EXCEPT !.hoveredComponent = MetadataPayload(mesh)]
  ELSE LET h1 == IF h.highlightedMeshRef # NullMesh
                 THEN revertHighlight(h, h.highlightedMeshRef) ELSE h
           cur == h1.material[mesh]
           new == [arr |-> cur.arr,
                   mats |-> [i \in 1..Len(cur.mats) |->
                               highlightMaterialTemplate(mesh[1])]]
       IN [h1 EXCEPT !.originalMaterial[mesh] = cur,
                     !.material[mesh] = new,
                     !.highlightedMeshRef = mesh,
                     !.hoveredComponent = MetadataPayload(mesh)]

(* faulty variant: does not revert the previously highlighted mesh *)
applyHighlight_NoRevert(h, mesh) ==
  IF h.highlightedMeshRef = mesh
  THEN [h EXCEPT !.hoveredComponent = MetadataPayload(mesh)]
  ELSE LET h1 == h
           cur == h1.material[mesh]
           new == CloneFor(h1, cur)
       IN [h1 EXCEPT !.originalMaterial[mesh] = cur,
                     !.material[mesh] = new,
                     !.disposed = @ \ MatsOf(new),
                     !.clones = @ + Len(new.mats),
                     !.highlightedMeshRef = mesh,
                     !.hoveredComponent = MetadataPayload(mesh)]

(* faulty variant: saves the highlight material as the original *)
applyHighlight_SavesClone(h, mesh) ==
  IF h.highlightedMeshRef = mesh
  THEN [h EXCEPT !.hoveredComponent = MetadataPayload(mesh)]
  ELSE LET h1 == IF h.highlightedMeshRef # NullMesh
                 THEN revertHighlight(h, h.highlightedMeshRef) ELSE h
           cur == h1.material[mesh]
           new == CloneFor(h1, cur)
       IN [h1 EXCEPT !.originalMaterial[mesh] = new,
                     !.material[mesh] = new,
                     !.disposed = @ \ MatsOf(new),
                     !.clones = @ + Len(new.mats),
                     !.highlightedMeshRef = mesh,
                     !.hoveredComponent = MetadataPayload(mesh)]

(* faulty variant: no shortcut for the mesh that is already highlighted *)
applyHighlight_AlwaysClones(h, mesh) ==
  LET h1 == IF h.highlightedMeshRef # NullMesh
            THEN revertHighlight(h, h.highlightedMeshRef) ELSE h
      cur == h1.material[mesh]
      new == CloneFor(h1, cur)
  IN [h1 EXCEPT !.originalMaterial[mesh] = cur,
                !.material[mesh] = new,
                !.disposed = @ \ MatsOf(new),
                !.clones = @ + Len(new.mats),
                !.highlightedMeshRef = mesh,
                !.hoveredComponent = MetadataPayload(mesh)]

(* applyHighlight, lines 315-338; clones counts the template.clone() calls *)
applyHighlight(h, mesh) ==
  IF h.highlightedMeshRef = mesh
  THEN [h EXCEPT !.hoveredComponent = MetadataPayload(mesh)]
  ELSE LET h1 == IF h.highlightedMeshRef # NullMesh
                 THEN revertHighlight(h, h.highlightedMeshRef) ELSE h
           cur == h1.material[mesh]
           new == CloneFor(h1, cur)
       IN [h1 EXCEPT !.originalMaterial[mesh] = cur,
                     !.material[mesh] = new,
                     !.disposed = @ \ MatsOf(new),
                     !.clones = @ + Len(new.mats),
                     !.highlightedMeshRef = mesh,
                     !.hoveredComponent = MetadataPayload(mesh)]

(* faulty variant: forgets the highlighted mesh without reverting it *)
clearHighlight_NoRevert(h) ==
  [h EXCEPT !.highlightedMeshRef = NullMesh, !.hoveredComponent = NoHover]

(* faulty variant: reverts the mesh but does not publish null *)
clearHighlight_KeepsHover(h) ==
  IF h.highlightedMeshRef = NullMesh
  THEN h
  ELSE [revertHighlight(h, h.highlightedMeshRef) EXCEPT
          !.highlightedMeshRef = NullMesh]

(* clearHighlight, lines 340-348 *)
clearHighlight(h) ==
  IF h.highlightedMeshRef = NullMesh
  THEN [h EXCEPT !.hoveredComponent = NoHover]
  ELSE [revertHighlight(h, h.highlightedMeshRef) EXCEPT
          !.highlightedMeshRef = NullMesh,
          !.hoveredComponent = NoHover]

(* write a highlight record back to the variables *)
SetHL(h) ==
  /\ material' = h.material
  /\ originalMaterial' = h.originalMaterial
  /\ highlightedMeshRef' = h.highlightedMeshRef
  /\ hoveredComponent' = h.hoveredComponent
  /\ disposed' = h.disposed

(* ---------------- scene contents and picking ---------------- *)
(* Objects of a session's scene a ray can intersect: the grid helper       *)
(* (index 0, a LineSegments, not a Mesh) and the meshes of the attached    *)
(* model.  Lights are not intersectable.                                   *)
Grid(s) == <<s, 0>>
IsMesh(o) == o[2] >= 1
SceneObjects(s) ==
  IF s = NoSession THEN {}
  ELSE {Grid(s)} \cup (IF sceneModel[s] = NoSession THEN {}
                       ELSE {<<sceneModel[s], m>> : m \in MeshIdx})

(* the intersection lists raycaster.intersectObjects can return: nearest   *)
(* first, no object twice                                                  *)
HitLists(s) ==
  {hs \in UNION {[1..n -> SceneObjects(s)] : n \in 0..MaxHits} :
     \A i, j \in 1..Len(hs) : i # j => hs[i] # hs[j]}

(* faulty variant: looks at the nearest intersection only *)
FindMesh_NearestOnly(hs) ==
  IF hs = <<>> THEN NullMesh
  ELSE IF IsMesh(Head(hs)) THEN Head(hs) ELSE NullMesh

(* intersects.find(i => i.object instanceof THREE.Mesh) *)
RECURSIVE FindMesh(_)
FindMesh(hs) ==
  IF hs = <<>> THEN NullMesh
  ELSE IF IsMesh(Head(hs)) THEN Head(hs) ELSE FindMesh(Tail(hs))

(* ---------------- initial state ---------------- *)
(* the component after construction, lines 218-229 *)
InitViewer ==
  /\ containerRef = TRUE
  /\ children = {}
  /\ loading = TRUE
  /\ error = NoError
  /\ hoveredComponent = NoHover
  /\ sceneRef = NoSession
  /\ cameraRef = NoSession
  /\ highlightedMeshRef = NullMesh
  /\ nSessions = 0
  /\ live = {}
  /\ uuid = [s \in Sessions |-> "A"]
  /\ pc = [s \in Sessions |-> "none"]
  /\ decodeStarted = {}
  /\ fetchCalls = [s \in Sessions |-> 0]
  /\ loadCalls = [s \in Sessions |-> 0]
  /\ rootScale = [s \in Sessions |-> NoVec]
  /\ rootPos = [s \in Sessions |-> NoVec]
  /\ sceneModel = [s \in Sessions |-> NoSession]
  /\ cameraPos = [s \in Sessions |-> PosDefault]
  /\ target = [s \in Sessions |-> Origin]
  /\ resizeReg = {}
  /\ pointerReg = {}
  /\ raf = {}
  /\ rendererDisposed = {}
  /\ templateDisposed = {}
  /\ material = [m \in Meshes |-> Absent]
  /\ originalMaterial = [m \in Meshes |-> Absent]
  /\ metadataUD = {}
  /\ disposed = {}

Init ==
  /\ InitViewer
  /\ call = NoCall

(* ---------------- effect body and cleanup ---------------- *)
(* faulty variant: the canvas is appended without emptying the mount      *)
(* target first                                                            *)
EffectBody_KeepsChildren(s, u, h, ch, rz, pt) ==
  /\ containerRef
  /\ SetHL([h EXCEPT !.hoveredComponent = NoHover,
                     !.highlightedMeshRef = NullMesh])
  /\ sceneRef' = s
  /\ cameraRef' = s
  /\ cameraPos' = [cameraPos EXCEPT ![s] = PosDefault]
  /\ target' = [target EXCEPT ![s] = Origin]
  /\ children' = ch \cup {s}
  /\ raf' = raf \cup {s}
  /\ resizeReg' = rz \cup {s}
  /\ pointerReg' = pt \cup {s}
  /\ loading' = TRUE
  /\ error' = NoError
  /\ uuid' = [uuid EXCEPT ![s] = u]
  /\ pc' = [pc EXCEPT ![s] = "fetch"]
  /\ fetchCalls' = [fetchCalls EXCEPT ![s] = @ + 1]
  /\ nSessions' = s
  /\ live' = {s}

(* The effect body (lines 231-505) run as session s with prop u, from a    *)
(* state whose highlight record is h, container children ch and handler    *)
(* registrations rz, pt.  loadModel runs synchronously up to its first     *)
(* await.                                                                  *)
EffectBody(s, u, h, ch, rz, pt) ==
  /\ containerRef
  /\ SetHL([h EXCEPT !.hoveredComponent = NoHover,
                     !.highlightedMeshRef = NullMesh])
  /\ sceneRef' = s
  /\ cameraRef' = s
  /\ cameraPos' = [cameraPos EXCEPT ![s] = PosDefault]
  /\ target' = [target EXCEPT ![s] = Origin]
  /\ children' = {s}
  /\ raf' = raf \cup {s}
  /\ resizeReg' = rz \cup {s}
  /\ pointerReg' = pt \cup {s}
  /\ loading' = TRUE
  /\ error' = NoError
  /\ uuid' = [uuid EXCEPT ![s] = u]
  /\ pc' = [pc EXCEPT ![s] = "fetch"]
  /\ fetchCalls' = [fetchCalls EXCEPT ![s] = @ + 1]
  /\ nSessions' = s
  /\ live' = {s}

(* first run of the effect after the component is constructed *)
Mount(u) ==
  /\ nSessions = 0
  /\ EffectBody(1, u, HL, children, resizeReg, pointerReg)
  /\ UNCHANGED <<containerRef, decodeStarted, sceneModel, rendererDisposed,
                 templateDisposed, metadataUD, loadCalls, rootScale, rootPos,
                 call>>

(* container children after the cleanup's removeChild *)
CleanupChildren(s) == IF containerRef THEN children \ {s} ELSE children

(* A dependency (uuid, metadata) changed, or the effect is re-run: React   *)
(* runs the cleanup of the live session, then the effect body.             *)
Rerun(u) ==
  /\ nSessions >= 1
  /\ nSessions < MaxSessions
  /\ live = {nSessions}
  /\ EffectBody(nSessions + 1, u, clearHighlight(HL),
                CleanupChildren(nSessions),
                resizeReg \ {nSessions}, pointerReg \ {nSessions})
  /\ templateDisposed' = templateDisposed \cup {nSessions}
  /\ rendererDisposed' = rendererDisposed \cup {nSessions}
  /\ UNCHANGED <<containerRef, decodeStarted, sceneModel, metadataUD,
                 loadCalls, rootScale, rootPos, call>>

(* React's StrictMode re-mount (the case the comment on line 259 names):   *)
(* the props are the same; containerRef is detached while the cleanup      *)
(* runs, so line 514 skips removeChild, and it is attached to the same     *)
(* element again before the effect body runs.                              *)
StrictRemount ==
  /\ nSessions >= 1
  /\ nSessions < MaxSessions
  /\ live = {nSessions}
  /\ EffectBody(nSessions + 1, uuid[nSessions], clearHighlight(HL), children,
                resizeReg \ {nSessions}, pointerReg \ {nSessions})
  /\ templateDisposed' = templateDisposed \cup {nSessions}
  /\ rendererDisposed' = rendererDisposed \cup {nSessions}
  /\ UNCHANGED <<containerRef, decodeStarted, sceneModel, metadataUD,
                 loadCalls, rootScale, rootPos, call>>

(* The component unmounts: React detaches containerRef, then runs the      *)
(* cleanup of the live session (lines 508-518), whose guard on line 514    *)
(* then skips removeChild.  The scheduled animation frame is not           *)
(* cancelled by the cleanup.                                               *)
Unmount ==
  /\ live = {nSessions}
  /\ containerRef' = FALSE
  /\ resizeReg' = resizeReg \ {nSessions}
  /\ pointerReg' = pointerReg \ {nSessions}
  /\ SetHL(clearHighlight(HL))
  /\ templateDisposed' = templateDisposed \cup {nSessions}
  /\ rendererDisposed' = rendererDisposed \cup {nSessions}
  /\ live' = {}
  /\ UNCHANGED <<children, loading, error, sceneRef, cameraRef, nSessions,
                 uuid, pc, decodeStarted, sceneModel, cameraPos, target, raf,
                 metadataUD, fetchCalls, loadCalls, rootScale, rootPos, call>>

(* ---------------- loadModel ---------------- *)
(* faulty variant: the catch block leaves the loading flag alone *)
Catch_KeepsLoading(s, msg) ==
  /\ error' = msg
  /\ loading' = loading
  /\ pc' = [pc EXCEPT ![s] = "failedTransport"]
  /\ fetchCalls' = fetchCalls

(* faulty variant: the catch block calls loadModel again *)
Catch_Retries(s, msg) ==
  /\ error' = NoError
  /\ loading' = TRUE
  /\ pc' = [pc EXCEPT ![s] = "fetch"]
  /\ fetchCalls' = [fetchCalls EXCEPT ![s] = @ + 1]

(* catch block of loadModel, lines 498-502 *)
Catch(s, msg) ==
  /\ error' = msg
  /\ loading' = FALSE
  /\ pc' = [pc EXCEPT ![s] = "failedTransport"]
  /\ fetchCalls' = fetchCalls

LoadFrame == <<containerRef, children, sceneRef, cameraRef, nSessions, live,
               uuid, resizeReg, pointerReg, raf, rendererDisposed,
               templateDisposed, disposed, material, originalMaterial,
               highlightedMeshRef, hoveredComponent>>

(* the fetch of the download URL settles: response ok, response with a     *)
(* non-success status, or rejection                                        *)
FetchSettles(s, out) ==
  /\ pc[s] = "fetch"
  /\ \/ /\ out = "ok"
        /\ pc' = [pc EXCEPT ![s] = "json"]
        /\ UNCHANGED <<loading, error, fetchCalls>>
     \/ /\ out = "status"
        /\ pc' = [pc EXCEPT ![s] = "text"]
        /\ UNCHANGED <<loading, error, fetchCalls>>
     \/ /\ out = "network"
        /\ Catch(s, ErrRejected)
  /\ UNCHANGED LoadFrame
  /\ UNCHANGED <<decodeStarted, sceneModel, cameraPos, target, metadataUD,
                 loadCalls, rootScale, rootPos, call>>

(* response.text() of a non-success response settles; the throw on line    *)
(* 407 or the rejection reaches the catch block                            *)
TextSettles(s, out) ==
  /\ pc[s] = "text"
  /\ Catch(s, IF out = "ok" THEN ErrStatus ELSE ErrRejected)
  /\ UNCHANGED LoadFrame
  /\ UNCHANGED <<decodeStarted, sceneModel, cameraPos, target, metadataUD,
                 loadCalls, rootScale, rootPos, call>>

(* response.json() settles; on success loader.load is called *)
JsonSettles(s, out) ==
  /\ pc[s] = "json"
  /\ \/ /\ out = "ok"
        /\ pc' = [pc EXCEPT ![s] = "decode"]
        /\ decodeStarted' = decodeStarted \cup {s}
        /\ loadCalls' = [loadCalls EXCEPT ![s] = @ + 1]
        /\ UNCHANGED <<loading, error, fetchCalls>>
     \/ /\ out = "reject"
        /\ Catch(s, ErrRejected)
        /\ UNCHANGED <<decodeStarted, loadCalls>>
  /\ UNCHANGED LoadFrame
  /\ UNCHANGED <<sceneModel, cameraPos, target, metadataUD, rootScale,
                 rootPos, call>>

(* the scene the onLoad continuation attaches the model to: the scene of   *)
(* its own closure                                                         *)
(* faulty variant: attaches to whatever scene sceneRef points to *)
OnLoadScene_Current(s) == sceneRef

OnLoadScene(s) == s

(* faulty variant: onLoad does not call setLoading(false) *)
GltfOnLoad_KeepsLoading(s) ==
  /\ pc[s] = "decode"
  /\ sceneModel' = [sceneModel EXCEPT ![OnLoadScene(s)] = s]
  /\ material' = [m \in Meshes |->
                    IF m[1] = s THEN GltfMaterial(uuid[s], s, m[2])
                    ELSE material[m]]
  /\ metadataUD' = metadataUD \cup {s}
  /\ rootScale' = [rootScale EXCEPT ![s] = Normalize(GltfBox(uuid[s])).scale]
  /\ rootPos' = [rootPos EXCEPT ![s] = Normalize(GltfBox(uuid[s])).position]
  /\ cameraPos' = [cameraPos EXCEPT ![s] = PosDefault]
  /\ target' = [target EXCEPT ![s] = Origin]
  /\ pc' = [pc EXCEPT ![s] = "loaded"]
  /\ UNCHANGED <<containerRef, children, error, hoveredComponent, sceneRef,
                 cameraRef, highlightedMeshRef, nSessions, live, uuid,
                 decodeStarted, resizeReg, pointerReg, raf,
                 rendererDisposed, templateDisposed, originalMaterial,
                 disposed, fetchCalls, loadCalls, call, loading>>

(* GLTF onLoad continuation, lines 417-488 (onMetadataLoad is not passed   *)
(* by the hosting page)                                                    *)
GltfOnLoad(s) ==
  /\ pc[s] = "decode"
  /\ LET sc == OnLoadScene(s) IN
       sceneModel' = [sceneModel EXCEPT ![sc] = s]
  /\ material' = [m \in Meshes |->
                    IF m[1] = s THEN GltfMaterial(uuid[s], s, m[2])
                    ELSE material[m]]
  /\ metadataUD' = metadataUD \cup {s}
  /\ LET n == Normalize(GltfBox(uuid[s])) IN
       /\ rootScale' = [rootScale EXCEPT ![s] = n.scale]
       /\ rootPos' = [rootPos EXCEPT ![s] = n.position]
  /\ cameraPos' = [cameraPos EXCEPT ![s] = PosDefault]
  /\ target' = [target EXCEPT ![s] = Origin]
  /\ loading' = FALSE
  /\ pc' = [pc EXCEPT ![s] = "loaded"]
  /\ UNCHANGED <<containerRef, children, error, hoveredComponent, sceneRef,
                 cameraRef, highlightedMeshRef, nSessions, live, uuid,
                 decodeStarted, resizeReg, pointerReg, raf,
                 rendererDisposed, templateDisposed, originalMaterial,
                 disposed, fetchCalls, loadCalls, call>>

(* faulty variant: onError also resets camera and orbit target *)
GltfOnError_ResetsCamera(s) ==
  /\ pc[s] = "decode"
  /\ error' = ErrDecode
  /\ loading' = FALSE
  /\ pc' = [pc EXCEPT ![s] = "failedDecode"]
  /\ cameraPos' = [cameraPos EXCEPT ![s] = PosDefault]
  /\ target' = [target EXCEPT ![s] = Origin]
  /\ UNCHANGED LoadFrame
  /\ UNCHANGED <<decodeStarted, sceneModel, metadataUD, fetchCalls,
                 loadCalls, rootScale, rootPos, call>>

(* faulty variant: onError also removes the session's canvas *)
GltfOnError_RemovesSurface(s) ==
  /\ pc[s] = "decode"
  /\ error' = ErrDecode
  /\ loading' = FALSE
  /\ pc' = [pc EXCEPT ![s] = "failedDecode"]
  /\ children' = children \ {s}
  /\ UNCHANGED <<containerRef, sceneRef, cameraRef, nSessions, live, uuid,
                 resizeReg, pointerReg, raf, rendererDisposed,
                 templateDisposed, disposed, material, originalMaterial,
                 highlightedMeshRef, hoveredComponent>>
  /\ UNCHANGED <<decodeStarted, sceneModel, cameraPos, target, metadataUD,
                 fetchCalls, loadCalls, rootScale, rootPos, call>>

(* GLTF onError callback, lines 492-496 *)
GltfOnError(s) ==
  /\ pc[s] = "decode"
  /\ error' = ErrDecode
  /\ loading' = FALSE
  /\ pc' = [pc EXCEPT ![s] = "failedDecode"]
  /\ UNCHANGED LoadFrame
  /\ UNCHANGED <<decodeStarted, sceneModel, cameraPos, target, metadataUD,
                 fetchCalls, loadCalls, rootScale, rootPos, call>>

(* ---------------- event handlers ---------------- *)
PickViewerFrame ==
  <<containerRef, children, loading, error, sceneRef, cameraRef,
    nSessions, live, uuid, pc, decodeStarted, sceneModel,
    cameraPos, target, resizeReg, pointerReg, raf,
    rendererDisposed, templateDisposed, metadataUD, fetchCalls,
    loadCalls, rootScale, rootPos>>
PickFrame == <<PickViewerFrame, call>>

(* the highlight record handlePointerMove leaves, lines 368-382, for the   *)
(* intersection list hs                                                    *)
PointerMoveResult(hs) ==
  IF cameraRef = NoSession \/ sceneRef = NoSession
  THEN HL
  ELSE LET meshIntersection == FindMesh(hs)
       IN IF meshIntersection # NullMesh
          THEN applyHighlight(HL, meshIntersection)
          ELSE clearHighlight(HL)

(* handlePointerMove, lines 367-383, with the intersection list hs *)
handlePointerMove(s, hs) ==
  /\ s \in pointerReg
  /\ SetHL(PointerMoveResult(hs))
  /\ UNCHANGED PickFrame

(* handlePointerLeave, lines 385-387 *)
handlePointerLeave(s) ==
  /\ s \in pointerReg
  /\ SetHL(clearHighlight(HL))
  /\ UNCHANGED PickFrame

(* the user orbits / pans through OrbitControls on an attached canvas *)
Orbit(s, p, t) ==
  /\ containerRef
  /\ s \in children
  /\ cameraPos' = [cameraPos EXCEPT ![s] = p]
  /\ target' = [target EXCEPT ![s] = t]
  /\ UNCHANGED <<containerRef, children, loading, error, hoveredComponent,
                 sceneRef, cameraRef, highlightedMeshRef, nSessions, live,
                 uuid, pc, decodeStarted, sceneModel, resizeReg, pointerReg,
                 raf, rendererDisposed, templateDisposed,
                 material, originalMaterial, metadataUD, disposed,
                 fetchCalls, loadCalls, rootScale, rootPos, call>>

(* animate, lines 351-355: reschedules itself, then draws *)
animate(s) ==
  /\ s \in raf
  /\ raf' = raf \cup {s}
  /\ UNCHANGED <<containerRef, children, loading, error, hoveredComponent,
                 sceneRef, cameraRef, highlightedMeshRef, nSessions, live,
                 uuid, pc, decodeStarted, sceneModel, cameraPos, target,
                 resizeReg, pointerReg, rendererDisposed, templateDisposed,
                 material, originalMaterial, metadataUD, disposed,
                 fetchCalls, loadCalls, rootScale, rootPos, call>>

Next ==
  \/ \E u \in Ids : Mount(u)
  \/ \E u \in Ids : Rerun(u)
  \/ StrictRemount
  \/ Unmount
  \/ \E s \in Sessions, out \in {"ok", "status", "network"} : FetchSettles(s, out)
  \/ \E s \in Sessions, out \in {"ok", "reject"} : TextSettles(s, out)
  \/ \E s \in Sessions, out \in {"ok", "reject"} : JsonSettles(s, out)
  \/ \E s \in Sessions : GltfOnLoad(s)
  \/ \E s \in Sessions : GltfOnError(s)
  \/ \E s \in pointerReg : \E hs \in HitLists(sceneRef) : handlePointerMove(s, hs)
  \/ \E s \in pointerReg : handlePointerLeave(s)
  \/ \E s \in children : Orbit(s, PosMoved, TargetMoved)
  \/ \E s \in raf : animate(s)

Spec == Init /\ [][Next]_vars

(* The transport answers the lookup of the session created last and the    *)
(* loader answers its decode: a response of that session that is pending   *)
(* is eventually delivered.                                                *)
LoadResponds ==
  \E s \in Sessions :
    /\ s = nSessions
    /\ \/ \E out \in {"ok", "status", "network"} : FetchSettles(s, out)
       \/ \E out \in {"ok", "reject"} : TextSettles(s, out)
       \/ \E out \in {"ok", "reject"} : JsonSettles(s, out)
       \/ GltfOnLoad(s)
       \/ GltfOnError(s)

FairSpec == Spec /\ WF_vars(LoadResponds)

(* ---------------- pointer events of one session ---------------- *)
(* The highlight automaton of a single session whose load succeeds.  The   *)
(* call holds the latest pointer event: its kind, the intersection list    *)
(* of a move, the mesh that was highlighted when it arrived, the number of *)
(* template.clone() calls it made, and a bit that every event flips.       *)
NoPointerEvent ==
  [fn |-> "pointer", event |-> "none", hits |-> <<>>, prev |-> NullMesh,
   clones |-> 0, tick |-> 0]

InitPick ==
  /\ InitViewer
  /\ call = NoPointerEvent

(* handlePointerMove, lines 367-383, recorded *)
recordedPointerMove(s, hs) ==
  /\ s \in pointerReg
  /\ SetHL(PointerMoveResult(hs))
  /\ call' = [fn |-> "pointer", event |-> "move", hits |-> hs,
              prev |-> highlightedMeshRef,
              clones |-> PointerMoveResult(hs).clones,
              tick |-> 1 - call.tick]
  /\ UNCHANGED PickViewerFrame

(* handlePointerLeave, lines 385-387, recorded *)
recordedPointerLeave(s) ==
  /\ s \in pointerReg
  /\ SetHL(clearHighlight(HL))
  /\ call' = [fn |-> "pointer", event |-> "leave", hits |-> <<>>,
              prev |-> highlightedMeshRef,
              clones |-> clearHighlight(HL).clones,
              tick |-> 1 - call.tick]
  /\ UNCHANGED PickViewerFrame

NextPick ==
  \/ \E u \in Ids : Mount(u)
  \/ \E s \in Sessions : FetchSettles(s, "ok")
  \/ \E s \in Sessions : JsonSettles(s, "ok")
  \/ \E s \in Sessions : GltfOnLoad(s)
  \/ \E s \in pointerReg : \E hs \in HitLists(sceneRef) : recordedPointerMove(s, hs)
  \/ \E s \in pointerReg : recordedPointerLeave(s)

PickSpec == InitPick /\ [][NextPick]_vars

(* ---------------- revertHighlight as one call ---------------- *)
(* revertHighlight is examined on every mesh of the attached model in      *)
(* every highlight state pointer events lead to.  The call holds the mesh  *)
(* it was given and the highlight record it leaves; a bit flips with every *)
(* call.                                                                   *)
NoRevert == [fn |-> "revert", mesh |-> NullMesh, after |-> HL, tick |-> 0]

InitRevert ==
  /\ InitViewer
  /\ call = NoRevert

(* revertHighlight(mesh), lines 300-305, for a mesh of the scene *)
Revert(mesh) ==
  /\ material[mesh] # Absent
  /\ call' = [fn |-> "revert", mesh |-> mesh,
              after |-> revertHighlight(HL, mesh),
              tick |-> 1 - call.tick]
  /\ UNCHANGED viewerVars

NextRevert ==
  \/ \E u \in Ids : Mount(u)
  \/ \E s \in Sessions : FetchSettles(s, "ok")
  \/ \E s \in Sessions : JsonSettles(s, "ok")
  \/ \E s \in Sessions : GltfOnLoad(s)
  \/ \E s \in pointerReg : \E hs \in HitLists(sceneRef) : handlePointerMove(s, hs)
  \/ \E s \in pointerReg : handlePointerLeave(s)
  \/ \E mesh \in Meshes : Revert(mesh)

RevertSpec == InitRevert /\ [][NextRevert]_vars

(* ---------------- re-render with new props ---------------- *)
(* The props of two consecutive renders.  Objects and functions are        *)
(* references, here numbers, 0 being null / undefined.  The metadata       *)
(* objects 1 and 2 hold equal payloads (the hosting page fetches the file  *)
(* record anew for every render, lines 19-23 of FilePage), object 3 holds  *)
(* another payload.                                                        *)
MetadataObjects == 0..3
PayloadOf(o) == IF o = 0 THEN "null" ELSE IF o \in {1, 2} THEN "P" ELSE "Q"
Callbacks == 0..2
Props == [uuid : Ids, metadata : MetadataObjects, onMetadataLoad : Callbacks]

(* the dependency list of the effect, line 519 *)
Deps(p) == <<p.uuid, p.onMetadataLoad, p.metadata>>

(* React re-runs an effect when some dependency differs from the previous  *)
(* render's by Object.is: strings by value, objects and functions by       *)
(* reference                                                               *)
DepsChanged(prev, next) ==
  \E i \in 1..3 : Deps(prev)[i] # Deps(next)[i]

InitRerender ==
  /\ InitViewer
  /\ call \in [fn : {"render"}, prev : Props, next : Props,
                done : {FALSE}, reran : {FALSE}]

(* the component renders with props call.next after call.prev; reran tells *)
(* whether the cleanup and the effect body run                             *)
Rerender ==
  /\ call.fn = "render"
  /\ ~call.done
  /\ call' = [call EXCEPT !.done = TRUE,
                          !.reran = DepsChanged(call.prev, call.next)]
  /\ UNCHANGED viewerVars

RerenderSpec == InitRerender /\ [][Rerender]_vars

(* ---------------- frames drawn ---------------- *)
(* Spec does not tell one drawn frame from the next.  Here the call holds  *)
(* the session whose animate callback ran last and the parity of the       *)
(* number of frames drawn.                                                 *)
NoFrame == [fn |-> "animate", session |-> NoSession, parity |-> 0]

InitRender ==
  /\ InitViewer
  /\ call = NoFrame

(* faulty variant: draws the frame without requesting the next one *)
animateFrame_NoReschedule(s) ==
  /\ s \in raf
  /\ raf' = raf \ {s}
  /\ call' = [fn |-> "animate", session |-> s, parity |-> 1 - call.parity]
  /\ UNCHANGED <<containerRef, children, loading, error, hoveredComponent,
                 sceneRef, cameraRef, highlightedMeshRef, nSessions, live,
                 uuid, pc, decodeStarted, sceneModel, cameraPos, target,
                 resizeReg, pointerReg, rendererDisposed, templateDisposed,
                 material, originalMaterial, metadataUD, disposed,
                 fetchCalls, loadCalls, rootScale, rootPos>>

(* animate, lines 351-355, with the frame it draws recorded *)
animateFrame(s) ==
  /\ s \in raf
  /\ raf' = raf \cup {s}
  /\ call' = [fn |-> "animate", session |-> s, parity |-> 1 - call.parity]
  /\ UNCHANGED <<containerRef, children, loading, error, hoveredComponent,
                 sceneRef, cameraRef, highlightedMeshRef, nSessions, live,
                 uuid, pc, decodeStarted, sceneModel, cameraPos, target,
                 resizeReg, pointerReg, rendererDisposed, templateDisposed,
                 material, originalMaterial, metadataUD, disposed,
                 fetchCalls, loadCalls, rootScale, rootPos>>

NextRender ==
  \/ Next
  \/ \E s \in raf : animateFrame(s)

(* the browser runs every requested animation frame callback *)
RenderSpec ==
  /\ InitRender
  /\ [][NextRender]_vars
  /\ \A s \in Sessions : WF_vars(animateFrame(s))

(* ---------------- a second run of a cleanup ---------------- *)
(* The cleanup closure of the torn-down session s (lines 508-518) is       *)
(* called once more.  removeChild throws a NotFoundError when the canvas   *)
(* is not a child of the element containerRef holds, and the statements    *)
(* after it are then not reached.  The call records whether it threw.      *)
CleanupAgain(s) ==
  /\ call = NoCall
  /\ s <= nSessions
  /\ s \notin live
  /\ resizeReg' = resizeReg \ {s}
  /\ pointerReg' = pointerReg \ {s}
  /\ SetHL(clearHighlight(HL))
  /\ templateDisposed' = templateDisposed \cup {s}
  /\ IF containerRef /\ s \notin children
     THEN /\ call' = [fn |-> "cleanup", session |-> s, threw |-> TRUE]
          /\ UNCHANGED <<children, rendererDisposed>>
     ELSE /\ call' = [fn |-> "cleanup", session |-> s, threw |-> FALSE]
          /\ children' = CleanupChildren(s)
          /\ rendererDisposed' = rendererDisposed \cup {s}
  /\ UNCHANGED <<containerRef, loading, error, sceneRef, cameraRef, nSessions,
                 live, uuid, pc, decodeStarted, sceneModel, cameraPos, target,
                 raf, metadataUD, fetchCalls, loadCalls, rootScale, rootPos>>

NextTeardown ==
  \/ Next
  \/ \E s \in Sessions : CleanupAgain(s)

TeardownSpec == Init /\ [][NextTeardown]_vars

(* ---------------- correlation of one mesh ---------------- *)
(* The traversal of lines 456-468 treats every mesh alone, so the          *)
(* correlation is examined as one call: the metadata prop, the name and    *)
(* the number of child nodes of one mesh go in, its ComponentHoverInfo     *)
(* comes out.                                                              *)
MaxNodes == 2
MaxKids == 1

NodeRecords ==
  {NodeRecord(id, name, mesh, ch[1], ch[2]) :
     id \in {Null, 1}, name \in {"", "Arm"}, mesh \in {Null, 0},
     ch \in {<<FALSE, <<>>>>, <<TRUE, <<>>>>, <<TRUE, <<2, 3>>>>}}

Metadatas ==
  {NullMetadata, NoNodesMetadata} \cup
  {NodesMetadata(ns) : ns \in UNION {[1..n -> NodeRecords] : n \in 0..MaxNodes}}

MeshNames == {"", "Arm", "node_1"}
CallMesh == <<1, 1>>

InitCorrelate ==
  /\ InitViewer
  /\ call \in [fn : {"componentInfo"}, metadata : Metadatas,
                name : MeshNames, nchildren : 0..MaxKids,
                done : {FALSE}, info : {NoHover}]

(* lines 456-468 for the mesh of the call *)
Correlate ==
  /\ call.fn = "componentInfo"
  /\ ~call.done
  /\ call' = [call EXCEPT
                !.done = TRUE,
                !.info = componentInfo(metadataByName(call.metadata), CallMesh,
                                       call.name, call.nchildren)]
  /\ UNCHANGED viewerVars

CorrelateSpec == InitCorrelate /\ [][Correlate]_vars

(* ---------------- the metadata index as one call ---------------- *)
(* Lines 430-437 read the metadata prop only, so the index is examined as  *)
(* one call: the metadata prop goes in, the Map comes out.  The records    *)
(* have the ids absent, 0 and 1 and the names absent or empty, "Arm" and   *)
(* "node_1" (a name that is also the key made from id 1); their mesh       *)
(* field tells records with equal id and name apart.                       *)
IndexRecords ==
  {NodeRecord(id, name, mesh, FALSE, <<>>) :
     id \in {Null, 0, 1}, name \in {"", "Arm", "node_1"}, mesh \in {Null, 0}}

IndexMetadatas ==
  {NullMetadata, NoNodesMetadata} \cup
  {NodesMetadata(ns) : ns \in UNION {[1..n -> IndexRecords] : n \in 0..MaxNodes}}

EmptyIndex == [k \in {} |-> 0]

InitIndex ==
  /\ InitViewer
  /\ call \in [fn : {"metadataByName"}, metadata : IndexMetadatas,
                done : {FALSE}, index : {EmptyIndex}]

(* lines 430-437 for the metadata of the call *)
BuildIndex ==
  /\ call.fn = "metadataByName"
  /\ ~call.done
  /\ call' = [call EXCEPT !.done = TRUE,
                          !.index = metadataByName(call.metadata)]
  /\ UNCHANGED viewerVars

IndexSpec == InitIndex /\ [][BuildIndex]_vars

(* ---------------- normalisation as one call ---------------- *)
(* Lines 439-449 read the bounding box of the decoded scene only, so the   *)
(* normalisation is examined as one call: the size and the centre of the   *)
(* box go in, the scale and the position of the root come out.             *)
MaxExtent == 3
Centers == {0 - 1, 0, 2}
Boxes == [size : [1..3 -> 0..MaxExtent], center : [1..3 -> Centers]]

InitNormalize ==
  /\ InitViewer
  /\ call \in [fn : {"normalize"}, box : Boxes, done : {FALSE},
                scale : {NoVec}, position : {NoVec}]

(* lines 439-449 for the box of the call *)
NormalizeRoot ==
  /\ call.fn = "normalize"
  /\ ~call.done
  /\ call' = [call EXCEPT !.done = TRUE,
                          !.scale = Normalize(call.box).scale,
                          !.position = Normalize(call.box).position]
  /\ UNCHANGED viewerVars

NormalizeSpec == InitNormalize /\ [][NormalizeRoot]_vars

(* sum of two numbers, product of a number and an integer *)
FracAdd(a, b) == Frac(a[1] * b[2] + b[1] * a[2], a[2] * b[2])
FracTimes(a, k) == Frac(a[1] * k, a[2])
FracLeq(a, b) == a[1] * b[2] <= b[1] * a[2]

(* Twice the coordinate, on axis i, of the lower (sign -1) or upper        *)
(* (sign 1) face of the box after the root, the only ancestor of the       *)
(* model with a transform, has the given scale and position: a point p of  *)
(* the model lies at scale * p + position                                  *)
BoxFaceTwice(box, scale, position, i, sign) ==
  FracAdd(FracTimes(scale[i], 2 * box.center[i] + sign * box.size[i]),
          FracTimes(position[i], 2))

(* ---------------- camera at load time ---------------- *)
(* Spec does not tell where the camera was before a load completed.  Here  *)
(* the call holds the session whose onLoad continuation ran last and the   *)
(* camera position and orbit target it found.                              *)
NoOnLoad ==
  [fn |-> "onLoad", session |-> NoSession, cameraPos |-> PosDefault,
   target |-> Origin]

InitCamera ==
  /\ InitViewer
  /\ call = NoOnLoad

(* faulty variant: leaves the camera and the orbit target where they are *)
recordedGltfOnLoad_KeepsCamera(s) ==
  /\ pc[s] = "decode"
  /\ LET sc == OnLoadScene(s) IN
       sceneModel' = [sceneModel EXCEPT ![sc] = s]
  /\ material' = [m \in Meshes |->
                    IF m[1] = s THEN GltfMaterial(uuid[s], s, m[2])
                    ELSE material[m]]
  /\ metadataUD' = metadataUD \cup {s}
  /\ LET n == Normalize(GltfBox(uuid[s])) IN
       /\ rootScale' = [rootScale EXCEPT ![s] = n.scale]
       /\ rootPos' = [rootPos EXCEPT ![s] = n.position]
  /\ UNCHANGED <<cameraPos, target>>
  /\ loading' = FALSE
  /\ pc' = [pc EXCEPT ![s] = "loaded"]
  /\ call' = [fn |-> "onLoad", session |-> s,
              cameraPos |-> cameraPos[s], target |-> target[s]]
  /\ UNCHANGED <<containerRef, children, error, hoveredComponent, sceneRef,
                 cameraRef, highlightedMeshRef, nSessions, live, uuid,
                 decodeStarted, resizeReg, pointerReg, raf,
                 rendererDisposed, templateDisposed, originalMaterial,
                 disposed, fetchCalls, loadCalls>>

(* GLTF onLoad continuation, lines 417-488, with the camera it found       *)
(* recorded                                                                *)
recordedGltfOnLoad(s) ==
  /\ pc[s] = "decode"
  /\ LET sc == OnLoadScene(s) IN
       sceneModel' = [sceneModel EXCEPT ![sc] = s]
  /\ material' = [m \in Meshes |->
                    IF m[1] = s THEN GltfMaterial(uuid[s], s, m[2])
                    ELSE material[m]]
  /\ metadataUD' = metadataUD \cup {s}
  /\ LET n == Normalize(GltfBox(uuid[s])) IN
       /\ rootScale' = [rootScale EXCEPT ![s] = n.scale]
       /\ rootPos' = [rootPos EXCEPT ![s] = n.position]
  /\ cameraPos' = [cameraPos EXCEPT ![s] = PosDefault]
  /\ target' = [target EXCEPT ![s] = Origin]
  /\ loading' = FALSE
  /\ pc' = [pc EXCEPT ![s] = "loaded"]
  /\ call' = [fn |-> "onLoad", session |-> s,
              cameraPos |-> cameraPos[s], target |-> target[s]]
  /\ UNCHANGED <<containerRef, children, error, hoveredComponent, sceneRef,
                 cameraRef, highlightedMeshRef, nSessions, live, uuid,
                 decodeStarted, resizeReg, pointerReg, raf,
                 rendererDisposed, templateDisposed, originalMaterial,
                 disposed, fetchCalls, loadCalls>>

NextCamera ==
  \/ \E u \in Ids : Mount(u)
  \/ \E u \in Ids : Rerun(u)
  \/ \E s \in Sessions, out \in {"ok", "status", "network"} : FetchSettles(s, out)
  \/ \E s \in Sessions, out \in {"ok", "reject"} : TextSettles(s, out)
  \/ \E s \in Sessions, out \in {"ok", "reject"} : JsonSettles(s, out)
  \/ \E s \in Sessions : recordedGltfOnLoad(s)
  \/ \E s \in Sessions : GltfOnError(s)
  \/ \E s \in children : Orbit(s, PosMoved, TargetMoved)

CameraSpec == InitCamera /\ [][NextCamera]_vars

(* ---------------- resize events ---------------- *)
(* handleResize writes the aspect of its closure's camera and the size of  *)
(* its closure's renderer and nothing else.  The call holds the latest     *)
(* call of a handleResize: its session, clientWidth and clientHeight of    *)
(* the mount target at that moment, whether it got past line 360, the      *)
(* aspect and the surface size it set (NoVec: not set), and a bit that     *)
(* every call flips.  The browser calls the handler while it is            *)
(* registered; it is examined for every session whose closure exists, so   *)
(* that the guard on line 360 is exercised too.                            *)
ClientSizes == {<<4, 2>>, <<3, 4>>}

NoResize ==
  [fn |-> "resize", session |-> NoSession, client |-> NoVec,
   acted |-> FALSE, aspect |-> NoVec, surface |-> NoVec, tick |-> 0]

InitResize ==
  /\ InitViewer
  /\ call = NoResize

(* faulty variant: height over width *)
handleResize_InvertedAspect(s, client) ==
  /\ s \in 1..nSessions
  /\ call' = IF ~containerRef
             THEN [fn |-> "resize", session |-> s, client |-> client,
                   acted |-> FALSE, aspect |-> NoVec, surface |-> NoVec,
                   tick |-> 1 - call.tick]
             ELSE [fn |-> "resize", session |-> s, client |-> client,
                   acted |-> TRUE, aspect |-> Frac(client[2], client[1]),
                   surface |-> client, tick |-> 1 - call.tick]
  /\ UNCHANGED viewerVars

(* faulty variant: no test of containerRef.current *)
handleResize_NoGuard(s, client) ==
  /\ s \in 1..nSessions
  /\ call' = [fn |-> "resize", session |-> s, client |-> client,
              acted |-> TRUE, aspect |-> Frac(client[1], client[2]),
              surface |-> client, tick |-> 1 - call.tick]
  /\ UNCHANGED viewerVars

(* handleResize of session s, lines 359-364, the mount target being        *)
(* client[1] wide and client[2] high                                       *)
handleResize(s, client) ==
  /\ s \in 1..nSessions
  /\ call' = IF ~containerRef
             THEN [fn |-> "resize", session |-> s, client |-> client,
                   acted |-> FALSE, aspect |-> NoVec, surface |-> NoVec,
                   tick |-> 1 - call.tick]
             ELSE [fn |-> "resize", session |-> s, client |-> client,
                   acted |-> TRUE, aspect |-> Frac(client[1], client[2]),
                   surface |-> client, tick |-> 1 - call.tick]
  /\ UNCHANGED viewerVars

NextResize ==
  \/ \E u \in Ids : Mount(u)
  \/ \E u \in Ids : Rerun(u)
  \/ Unmount
  \/ \E s \in Sessions : FetchSettles(s, "ok")
  \/ \E s \in Sessions : JsonSettles(s, "ok")
  \/ \E s \in Sessions : GltfOnLoad(s)
  \/ \E s \in Sessions : GltfOnError(s)
  \/ \E s \in pointerReg : \E hs \in HitLists(sceneRef) : handlePointerMove(s, hs)
  \/ \E s \in Sessions, client \in ClientSizes : handleResize(s, client)

ResizeSpec == InitResize /\ [][NextResize]_vars

(* ---------------- fetchAndValidate, lib/utils.ts lines 13-32 ---------- *)
(* One call of fetchAndValidate.  The call holds what the request will     *)
(* meet (fetch rejects with the value thrown, or answers with a status     *)
(* and a body), the position of the async function and the state of the    *)
(* promise it returned.                                                    *)
(* A body is text that is no JSON, or a JSON object with some of the keys  *)
(* "uuid", "status" and "extra"; the schema is an object schema that       *)
(* requires "uuid" and "status" and, like every z.object, drops the keys   *)
(* it does not know.                                                       *)
Statuses == {200, 204, 404, 500}
BodyKeys == {"uuid", "status", "extra"}
SchemaKeys == {"uuid", "status"}
NotJson == [json |-> FALSE, keys |-> {}]
Bodies == {NotJson} \cup {[json |-> TRUE, keys |-> ks] : ks \in SUBSET BodyKeys}
(* values a rejected promise carries: an Error with a message, or a value  *)
(* that is no Error                                                        *)
Thrown == {[isError |-> TRUE, message |-> "fetch failed"],
           [isError |-> FALSE, message |-> ""]}
SyntaxError == [isError |-> TRUE, message |-> "Unexpected token < in JSON"]

(* response.ok *)
ResponseOk(status) == status >= 200 /\ status <= 299

(* zodSchema.safeParse(data), line 24 *)
safeParse(data) ==
  IF SchemaKeys \subseteq data.keys
  THEN [success |-> TRUE, data |-> [json |-> TRUE,
                                   keys |-> data.keys \cap SchemaKeys]]
  ELSE [success |-> FALSE, message |-> "Invalid input: expected string"]

(* the promise of the async function *)
Pending == [state |-> "pending"]
Fulfilled(v) == [state |-> "fulfilled", value |-> v]
Rejected(e) == [state |-> "rejected", reason |-> e]

(* faulty variant: no try / catch, as in lines 42-53 of the file *)
catchBlock_Rethrows(thrown) == Rejected(thrown)

(* the catch block, lines 29-31 *)
catchBlock(thrown) ==
  Fulfilled([success |-> FALSE,
             error |-> IF thrown.isError THEN thrown.message
                       ELSE "Unknown error"])

InitFetchAndValidate ==
  /\ InitViewer
  /\ call \in [fn : {"fetchAndValidate"}, net : {"response", "reject"},
                thrown : Thrown, status : Statuses, body : Bodies,
                pc : {"fetch"}, promise : {Pending}]

(* await fetch(url, options) settles, lines 19-22 *)
fetchSettles ==
  /\ call.fn = "fetchAndValidate"
  /\ call.pc = "fetch"
  /\ call' =
       IF call.net = "reject"
       THEN [call EXCEPT !.pc = "done", !.promise = catchBlock(call.thrown)]
       ELSE IF ~ResponseOk(call.status)
       THEN [call EXCEPT
               !.pc = "done",
               !.promise =
                 Fulfilled([success |-> FALSE,
                            error |-> "HTTP error! status: "
                                        \o ToString(call.status)])]
       ELSE [call EXCEPT !.pc = "json"]
  /\ UNCHANGED viewerVars

(* await response.json() settles, lines 23-28 *)
jsonSettles ==
  /\ call.fn = "fetchAndValidate"
  /\ call.pc = "json"
  /\ call' =
       IF ~call.body.json
       THEN [call EXCEPT !.pc = "done", !.promise = catchBlock(SyntaxError)]
       ELSE LET result == safeParse(call.body)
            IN IF ~result.success
               THEN [call EXCEPT
                       !.pc = "done",
                       !.promise = Fulfilled([success |-> FALSE,
                                              error |-> result.message])]
               ELSE [call EXCEPT
                       !.pc = "done",
                       !.promise = Fulfilled([success |-> TRUE,
                                              data |-> result.data])]
  /\ UNCHANGED viewerVars

NextFetchAndValidate == fetchSettles \/ jsonSettles

(* the transport answers or fails, and a body that arrives is read to its  *)
(* end                                                                     *)
FetchAndValidateSpec ==
  /\ InitFetchAndValidate
  /\ [][NextFetchAndValidate]_vars
  /\ WF_vars(NextFetchAndValidate)

(* ---------------- handleUpload, app/upload/page.tsx lines 32-97 ------- *)
(* The upload page.  The call holds its React state (file, uploading,      *)
(* uploadProgress, uploadedFileId, error), the position of the running     *)
(* handleUpload, the requests that call has sent and the steps of it that  *)
(* succeeded, and the number of handleUpload calls so far.                 *)
MaxUploads == 3
NoFileId == "null"

InitUpload ==
  /\ InitViewer
  /\ call = [fn |-> "handleUpload", pc |-> "idle", file |-> FALSE,
             uploading |-> FALSE, uploadProgress |-> 0,
             uploadedFileId |-> NoFileId, error |-> NoError,
             sent |-> {}, done |-> {}, uploads |-> 0]

(* onDrop with an accepted file, lines 16-21 *)
onDrop ==
  /\ call.fn = "handleUpload"
  /\ call' = [call EXCEPT !.file = TRUE, !.error = NoError]
  /\ UNCHANGED viewerVars

(* the button of lines 171-182, shown while a file is selected *)
removeFile ==
  /\ call.fn = "handleUpload"
  /\ call.file
  /\ call' = [call EXCEPT !.file = FALSE]
  /\ UNCHANGED viewerVars

(* the button of lines 220-226 is enabled and clicked: handleUpload runs   *)
(* up to its first await, lines 33-52                                      *)
handleUpload ==
  /\ call.fn = "handleUpload"
  /\ call.file
  /\ ~call.uploading
  /\ call.uploads < MaxUploads
  /\ call' = [call EXCEPT !.uploading = TRUE, !.error = NoError,
                          !.uploadProgress = 0, !.pc = "presign",
                          !.sent = {"presign"}, !.done = {},
                          !.uploads = @ + 1]
  /\ UNCHANGED viewerVars

(* a throw inside try: the catch block and the finally block, lines 92-96 *)
uploadFails(thrown) ==
  [call EXCEPT !.error = IF thrown.isError THEN thrown.message
                         ELSE "Upload failed",
               !.uploading = FALSE,
               !.pc = "idle"]

UploadError(msg) == [isError |-> TRUE, message |-> msg]

(* the presigned-URL request settles, lines 46-56 *)
presignSettles(out) ==
  /\ call.fn = "handleUpload"
  /\ call.pc = "presign"
  /\ call' =
       IF out = "ok" THEN [call EXCEPT !.pc = "presignJson"]
       ELSE IF out = "status"
       THEN uploadFails(UploadError("Failed to get upload URL"))
       ELSE uploadFails(UploadError("Failed to fetch"))
  /\ UNCHANGED viewerVars

(* response.json() of the presigned-URL answer settles and the schema      *)
(* parses it; then the PUT is sent, lines 58-67                            *)
presignJsonSettles(out) ==
  /\ call.fn = "handleUpload"
  /\ call.pc = "presignJson"
  /\ call' =
       IF out = "valid"
       THEN [call EXCEPT !.pc = "put", !.done = @ \cup {"presign"},
                         !.sent = @ \cup {"put"}]
       ELSE IF out = "invalid"
       THEN uploadFails(UploadError("Invalid input: expected string"))
       ELSE uploadFails([isError |-> FALSE, message |-> ""])
  /\ UNCHANGED viewerVars

(* faulty variant: does not look at the status of the PUT *)
putSettles_IgnoresStatus(out) ==
  /\ call.fn = "handleUpload"
  /\ call.pc = "put"
  /\ call' =
       IF out \in {"ok", "status"}
       THEN [call EXCEPT !.pc = "finish",
                         !.done = @ \cup (IF out = "ok" THEN {"put"} ELSE {}),
                         !.uploadProgress = 100,
                         !.sent = @ \cup {"finish"}]
       ELSE uploadFails(UploadError("Failed to fetch"))
  /\ UNCHANGED viewerVars

(* the PUT settles; then the confirmation is sent, lines 61-81 *)
putSettles(out) ==
  /\ call.fn = "handleUpload"
  /\ call.pc = "put"
  /\ call' =
       IF out = "ok"
       THEN [call EXCEPT !.pc = "finish", !.done = @ \cup {"put"},
                         !.uploadProgress = 100,
                         !.sent = @ \cup {"finish"}]
       ELSE IF out = "status"
       THEN uploadFails(UploadError("Failed to upload file"))
       ELSE uploadFails(UploadError("Failed to fetch"))
  /\ UNCHANGED viewerVars

(* the confirmation request settles, lines 75-85 *)
finishSettles(out) ==
  /\ call.fn = "handleUpload"
  /\ call.pc = "finish"
  /\ call' =
       IF out = "ok" THEN [call EXCEPT !.pc = "finishJson"]
       ELSE IF out = "status"
       THEN uploadFails(UploadError("Failed to confirm upload"))
       ELSE uploadFails(UploadError("Failed to fetch"))
  /\ UNCHANGED viewerVars

(* response.json() of the confirmation settles and the schema parses it;   *)
(* lines 87-91, then the finally block                                     *)
finishJsonSettles(out) ==
  /\ call.fn = "handleUpload"
  /\ call.pc = "finishJson"
  /\ call' =
       IF out = "valid"
       THEN [call EXCEPT !.pc = "idle", !.done = @ \cup {"finish"},
                         !.uploadedFileId = "file-" \o ToString(call.uploads),
                         !.file = FALSE,
                         !.uploading = FALSE]
       ELSE IF out = "invalid"
       THEN uploadFails(UploadError("Invalid input: expected string"))
       ELSE uploadFails([isError |-> FALSE, message |-> ""])
  /\ UNCHANGED viewerVars

NextUpload ==
  \/ onDrop
  \/ removeFile
  \/ handleUpload
  \/ \E out \in {"ok", "status", "network"} : presignSettles(out)
  \/ \E out \in {"valid", "invalid", "reject"} : presignJsonSettles(out)
  \/ \E out \in {"ok", "status", "network"} : putSettles(out)
  \/ \E out \in {"ok", "status", "network"} : finishSettles(out)
  \/ \E out \in {"valid", "invalid", "reject"} : finishJsonSettles(out)

UploadSpec == InitUpload /\ [][NextUpload]_vars

(* ---------------- properties ---------------- *)
InFlight == {"fetch", "text", "json", "decode"}
Failed == {"failedTransport", "failedDecode"}
Current == nSessions
CurrentLive == live = {nSessions}

(* the material a mesh came with when its asset was decoded *)
LoadedMaterial(mesh) ==
  IF pc[mesh[1]] = "loaded"
  THEN GltfMaterial(uuid[mesh[1]], mesh[1], mesh[2]) ELSE Absent
Substituted(mesh) == material[mesh] # LoadedMaterial(mesh)
Idle == highlightedMeshRef = NullMesh

(* C1: Exclusivity.  After every handler at most one mesh carries a        *)
(* substituted, not yet restored material.                                 *)
C1_Exclusivity == Cardinality({mesh \in Meshes : Substituted(mesh)}) <= 1

(* a mesh of the second model of the component is highlighted and is the   *)
(* only substituted one                                                    *)
C1_Witness ==
  /\ highlightedMeshRef = <<2, 2>>
  /\ Substituted(<<2, 2>>)
  /\ ~Substituted(<<2, 1>>)

(* C2: Restoration.  In Idle every mesh has the material it was loaded     *)
(* with and no mesh has a saved-material slot.                             *)
C2_Restoration ==
  Idle => \A mesh \in Meshes :
            /\ material[mesh] = LoadedMaterial(mesh)
            /\ originalMaterial[mesh] = Absent

(* Idle again after a highlight was reverted (its clone was disposed) *)
C2_Witness ==
  /\ Idle
  /\ disposed # {}
  /\ \E s \in Sessions : pc[s] = "loaded"

(* C3: HighlightState invariant.  A mesh has a saved material iff it is    *)
(* the highlighted mesh, and the saved material is the one the mesh had    *)
(* before highlighting began.                                              *)
C3_HighlightState ==
  \A mesh \in Meshes :
    /\ originalMaterial[mesh] # Absent <=> highlightedMeshRef = mesh
    /\ originalMaterial[mesh] # Absent =>
         originalMaterial[mesh] = LoadedMaterial(mesh)

(* a mesh with a material array is highlighted and its array is saved *)
C3_Witness ==
  \E mesh \in Meshes :
    /\ highlightedMeshRef = mesh
    /\ originalMaterial[mesh].arr
    /\ material[mesh] # originalMaterial[mesh]

(* C4: Stale-load discard.  The scene the refs point to (attached surface, *)
(* picking) never holds the model of another session's load, and holds the *)
(* current session's own model once that load has succeeded.               *)
C4_StaleLoadDiscard ==
  sceneRef # NoSession =>
    /\ sceneModel[sceneRef] \in {NoSession, sceneRef}
    /\ pc[sceneRef] = "loaded" => sceneModel[sceneRef] = sceneRef

(* load for A started, viewer switched to B, both loads succeeded *)
C4_Witness ==
  /\ nSessions = 2 /\ sceneRef = 2
  /\ uuid[1] = "A" /\ uuid[2] = "B"
  /\ pc[1] = "loaded" /\ pc[2] = "loaded"

(* C5: Stale continuation is a no-op.  The success continuation of a       *)
(* session that is no longer live changes no scene, camera, orbit target   *)
(* or highlight state.                                                     *)
C5_StaleContinuationNoOp ==
  [][\A s \in Sessions :
       (s \notin live /\ pc[s] = "decode" /\ pc'[s] = "loaded") =>
         /\ sceneModel' = sceneModel
         /\ cameraPos' = cameraPos
         /\ target' = target
         /\ highlightedMeshRef' = highlightedMeshRef
         /\ originalMaterial' = originalMaterial
         /\ hoveredComponent' = hoveredComponent]_vars

(* C6: Loading flag tracks the current session.  While the current         *)
(* session's load is in flight, loading is true.                           *)
C6_LoadingTracksCurrent ==
  (CurrentLive /\ pc[Current] \in InFlight) => loading = TRUE

(* C7: Error output belongs to the current session.  error is non-null     *)
(* only if the current session's own load failed.                          *)
C7_ErrorBelongsToCurrent ==
  (CurrentLive /\ error # NoError) => pc[Current] \in Failed

(* C8: Transport error.  A load that ends in the catch block never started *)
(* decoding and has no model in its scene; the step that ends it publishes *)
(* a non-null error and loading = false.                                   *)
C8_TransportError ==
  /\ [](\A s \in Sessions :
          pc[s] = "failedTransport" =>
            s \notin decodeStarted /\ sceneModel[s] = NoSession)
  /\ [][\A s \in Sessions :
          (pc[s] # "failedTransport" /\ pc'[s] = "failedTransport") =>
            error' # NoError /\ loading' = FALSE]_vars

(* the current session's lookup answered with a non-success status *)
C8_Witness ==
  /\ CurrentLive
  /\ pc[Current] = "failedTransport"
  /\ error = ErrStatus
  /\ loading = FALSE

(* C9: Decode error.  The onError step publishes a non-null error and      *)
(* loading = false and leaves scene, camera, orbit target and highlight    *)
(* state as they were.                                                     *)
C9_DecodeError ==
  [][\A s \in Sessions :
       (pc[s] = "decode" /\ pc'[s] = "failedDecode") =>
         /\ error' # NoError
         /\ loading' = FALSE
         /\ sceneModel' = sceneModel
         /\ cameraPos' = cameraPos
         /\ target' = target
         /\ material' = material
         /\ originalMaterial' = originalMaterial
         /\ highlightedMeshRef' = highlightedMeshRef
         /\ hoveredComponent' = hoveredComponent]_vars

(* the current session's decode failed after the user had moved the camera *)
C9_Witness ==
  /\ CurrentLive
  /\ pc[Current] = "failedDecode"
  /\ cameraPos[Current] = PosMoved
  /\ sceneModel[Current] = NoSession
  /\ error = ErrDecode

(* C10: A load failure does not tear the session down.  While a session    *)
(* whose load failed is the live one, its surface is attached, its resize  *)
(* and pointer handlers are registered, its render loop is scheduled and   *)
(* its renderer is not disposed.                                           *)
C10_FailureKeepsSession ==
  (CurrentLive /\ pc[Current] \in Failed) =>
    /\ Current \in children
    /\ Current \in resizeReg
    /\ Current \in pointerReg
    /\ Current \in raf
    /\ Current \notin rendererDisposed

(* the live session's decode failed and the session is still mounted *)
C10_Witness ==
  /\ CurrentLive
  /\ pc[Current] = "failedDecode"
  /\ Current \in children

(* C11: No automatic retry.  Every session created so far has issued       *)
(* exactly one lookup of the download location and at most one decode,     *)
(* and once a session's load has failed no step issues a lookup or a       *)
(* decode for it or moves it out of its failed position: only a new        *)
(* session loads again.                                                    *)
C11_NoRetry ==
  /\ [](\A s \in Sessions :
          /\ fetchCalls[s] = IF s <= nSessions THEN 1 ELSE 0
          /\ loadCalls[s] <= 1)
  /\ [][\A s \in Sessions :
          pc[s] \in Failed =>
            /\ pc'[s] = pc[s]
            /\ fetchCalls'[s] = fetchCalls[s]
            /\ loadCalls'[s] = loadCalls[s]]_vars

(* the first session failed after its single lookup and decode, and the    *)
(* session created after it has started its own decode                     *)
C11_Witness ==
  /\ pc[1] = "failedDecode"
  /\ fetchCalls[1] = 1
  /\ loadCalls[1] = 1
  /\ nSessions = 2
  /\ loadCalls[2] = 1

(* C12: Loading terminates.  When the responses of the session created    *)
(* last are delivered and no further session is created, then from some    *)
(* point on loading is false for good, and the session's scene holds its   *)
(* model or error is not null.                                             *)
C12_LoadingTerminates ==
  <>[](nSessions >= 1 =>
         /\ loading = FALSE
         /\ sceneModel[Current] = Current \/ error # NoError)

(* the last session's load has ended with its model attached, after an     *)
(* earlier session was replaced                                            *)
C12_Witness ==
  /\ nSessions = 2
  /\ pc[Current] = "loaded"
  /\ loading = FALSE
  /\ sceneModel[Current] = Current

(* C13: Degenerate scale.  When the bounding box of the decoded asset has  *)
(* zero extent (maxDim = 0), the completed load has normalised the root    *)
(* with scale 1: its scale is (1, 1, 1), its position is the negated       *)
(* centre, and no component is the result of a division by zero.           *)
C13_DegenerateScale ==
  \A s \in Sessions :
    (pc[s] = "loaded" /\ MaxDim(GltfBox(uuid[s]).size) = 0) =>
      /\ rootScale[s] = [i \in 1..3 |-> Frac(1, 1)]
      /\ rootPos[s] = [i \in 1..3 |-> Frac(0 - GltfBox(uuid[s]).center[i], 1)]
      /\ \A i \in 1..3 : rootScale[s][i][2] # 0 /\ rootPos[s][i][2] # 0

(* the call has returned *)
Correlated == call.fn = "componentInfo" /\ call.done
(* the mesh's name is a key of the index built from the call's metadata *)
Matched == call.name \in DOMAIN metadataByName(call.metadata)
MatchedRecord == metadataByName(call.metadata)[call.name]

(* C14: Correlation fallback.  A mesh whose name has no entry in the index *)
(* gets its own name as display name, or "Unnamed component" when the name *)
(* is empty, no node id, no mesh index, and its own number of child nodes  *)
(* as child count.                                                         *)
C14_CorrelationFallback ==
  (Correlated /\ ~Matched) =>
    /\ call.info.name =
         (IF call.name = "" THEN "Unnamed component" ELSE call.name)
    /\ call.info.nodeId = Null
    /\ call.info.meshIndex = Null
    /\ call.info.childCount = call.nchildren

(* a named mesh with one child node was correlated against records that    *)
(* all have another key                                                    *)
C14_Witness ==
  /\ Correlated
  /\ ~Matched
  /\ call.name = "node_1"
  /\ call.nchildren = 1
  /\ Len(call.metadata.nodes) = 2

(* C15: Matched correlation.  A mesh whose name is the key of an index     *)
(* entry gets that record's id as node id, that record's mesh as mesh      *)
(* index and its own name as display name; the record {id 1, name "Arm",   *)
(* mesh 0, children []} gives {nodeId 1, meshIndex 0, childCount 0,        *)
(* displayName "Arm"}.                                                     *)
C15_MatchedCorrelation ==
  /\ (Correlated /\ Matched) =>
       /\ call.info.nodeId = MatchedRecord.id
       /\ call.info.meshIndex = MatchedRecord.mesh
       /\ call.info.name = call.name
  /\ (/\ Correlated
      /\ call.name = "Arm"
      /\ call.metadata = NodesMetadata(<<NodeRecord(1, "Arm", 0, TRUE, <<>>)>>))
     => call.info = [uuid |-> CallMesh, name |-> "Arm", nodeId |-> 1,
                     meshIndex |-> 0, childCount |-> 0]

(* the mesh "Arm" was correlated against the single record of the example *)
C15_Witness ==
  /\ Correlated
  /\ call.name = "Arm"
  /\ call.metadata = NodesMetadata(<<NodeRecord(1, "Arm", 0, TRUE, <<>>)>>)
  /\ call.info.nodeId = 1

(* C16: childCount rule.  The child count is the number of child ids of    *)
(* the matched record whenever a record is matched, 0 when that record has *)
(* no child list, and the mesh's own number of child nodes only when no    *)
(* record is matched.                                                      *)
C16_ChildCountRule ==
  Correlated =>
    call.info.childCount =
      (IF Matched
       THEN (IF MatchedRecord.children.has
             THEN Len(MatchedRecord.children.ids) ELSE 0)
       ELSE call.nchildren)

(* no mesh of the decoded scene of file u has a record in u's metadata:    *)
(* the metadata is null, has no nodes, or no record's key is a mesh name   *)
NoRecordMatches(u) ==
  \A m \in MeshIdx : GltfMeshName(u, m) \notin DOMAIN metadataByName(FileMetadata(u))

(* C17: Metadata is optional.  When the live session has decoded an asset  *)
(* none of whose meshes has a metadata record, loading is false, error is  *)
(* null and every mesh carries the ComponentInfo built from the mesh       *)
(* alone.                                                                  *)
C17_MetadataOptional ==
  (CurrentLive /\ pc[Current] = "loaded" /\ NoRecordMatches(uuid[Current])) =>
    /\ loading = FALSE
    /\ error = NoError
    /\ Current \in metadataUD
    /\ \A m \in MeshIdx :
         ComponentInfo(uuid[Current], <<Current, m>>) =
           defaultComponentInfo(<<Current, m>>,
                                GltfMeshName(uuid[Current], m),
                                GltfMeshChildren(uuid[Current], m))

(* C18: Single surface.  After every run of the effect body (first mount, *)
(* re-mount, duplicate mount) and for as long as that session is live,     *)
(* the mount target holds exactly one canvas, the new session's, whatever  *)
(* canvases it held before.                                                *)
C18_SingleSurface ==
  CurrentLive => children = {Current}

(* the effect ran a second time with the same identifier and the mount     *)
(* target holds the second session's canvas only                           *)
C18_Witness ==
  /\ CurrentLive
  /\ nSessions = 2
  /\ uuid[1] = uuid[2]
  /\ children = {2}
  /\ 1 \in rendererDisposed

(* session s holds a live resource: its canvas is attached, its resize or  *)
(* pointer handlers are registered, or its render loop is scheduled        *)
HasLiveResources(s) ==
  s \in children \/ s \in resizeReg \/ s \in pointerReg \/ s \in raf

(* C19: One live session.  At any time at most one session holds live      *)
(* resources, and every session before the one that has attached its       *)
(* canvas has been torn down.                                              *)
C19_OneLiveSession ==
  /\ Cardinality({s \in Sessions : HasLiveResources(s)}) <= 1
  /\ \A s \in Sessions :
       s < nSessions =>
         s \notin live /\ s \in rendererDisposed /\ s \in templateDisposed

(* C20: Teardown postcondition.  Once a session has been torn down, by a   *)
(* re-run of the effect or by the unmount, with its load in flight or not, *)
(* its resize handler is unregistered, its pointer handlers are detached,  *)
(* its renderer is disposed and its canvas is no child of the mount        *)
(* target.                                                                 *)
C20_TeardownPostcondition ==
  \A s \in Sessions :
    (s <= nSessions /\ s \notin live) =>
      /\ s \notin resizeReg
      /\ s \notin pointerReg
      /\ s \in rendererDisposed
      /\ s \notin children

(* C21: Teardown clears the highlight.  A step that tears the live session *)
(* down or creates a session ends Idle with hoveredComponent = null, and   *)
(* when it began with a mesh highlighted that mesh has its saved material  *)
(* back and its slot is cleared.                                           *)
C21_TeardownClearsHighlight ==
  [][live' # live =>
       /\ highlightedMeshRef' = NullMesh
       /\ hoveredComponent' = NoHover
       /\ highlightedMeshRef # NullMesh =>
            /\ material'[highlightedMeshRef] = originalMaterial[highlightedMeshRef]
            /\ originalMaterial'[highlightedMeshRef] = Absent]_vars

(* the component was unmounted after one of its meshes had been            *)
(* highlighted: the mesh has the material it was loaded with               *)
C21_Witness ==
  /\ live = {}
  /\ nSessions = 1
  /\ pc[1] = "loaded"
  /\ disposed # {}
  /\ Idle
  /\ hoveredComponent = NoHover
  /\ \A m \in MeshIdx : material[<<1, m>>] = LoadedMaterial(<<1, m>>)

(* C22: Teardown is idempotent.  Running the teardown of a torn-down       *)
(* session a second time, in the Idle state the first run left, raises no  *)
(* error and changes no handler registration, no child of the mount        *)
(* target, no highlight state and no published output.                     *)
C22_TeardownIdempotent ==
  [][(call = NoCall /\ call'.fn = "cleanup" /\ Idle) =>
       /\ ~call'.threw
       /\ UNCHANGED viewerVars]_vars

(* C23: Render loop is bound to the session.  No torn-down session has a   *)
(* render callback scheduled, so at most one render loop is scheduled      *)
(* however often the effect has re-run.                                    *)
C23_RenderLoopBound ==
  /\ \A s \in raf : s \in live
  /\ Cardinality(raf) <= 1

(* C24: Render loop liveness.  A frame of a live session requests the next *)
(* one whatever the load and pick state, so a session that stays live      *)
(* draws infinitely often, also when its load stays in flight, when its    *)
(* load has failed and when one of its meshes stays highlighted.           *)
C24_RenderLoopLiveness ==
  /\ [](\A s \in live : s \in raf)
  /\ \A s \in Sessions :
       /\ <>[](live = {s}) => []<><<animateFrame(s)>>_vars
       /\ <>[](live = {s} /\ pc[s] \in InFlight) => []<><<animateFrame(s)>>_vars
       /\ <>[](live = {s} /\ pc[s] \in Failed) => []<><<animateFrame(s)>>_vars
       /\ <>[](live = {s} /\ highlightedMeshRef[1] = s)
            => []<><<animateFrame(s)>>_vars

(* frames of the live session were drawn after its load had failed *)
C24_Witness ==
  /\ CurrentLive
  /\ pc[Current] \in Failed
  /\ call.fn = "animate"
  /\ call.session = Current
  /\ call.parity = 1
  /\ Current \in raf

(* C25: Session re-creation triggers.  A render after which the            *)
(* identifier is the same and the metadata payload is equal, whatever the  *)
(* onMetadataLoad callback, does not re-run the effect (no teardown, no    *)
(* new load); a render that changes the identifier or the payload does.    *)
C25_RecreationTriggers ==
  (call.fn = "render" /\ call.done) =>
    (call.reran <=>
       \/ call.prev.uuid # call.next.uuid
       \/ PayloadOf(call.prev.metadata) # PayloadOf(call.next.metadata))

(* C26: Hovered-component consistency.  After every handler the published *)
(* hoveredComponent is non-null exactly when a mesh is highlighted, and    *)
(* it is then the ComponentInfo attached to that mesh; in Idle, so after a *)
(* miss, a pointer-leave or a teardown, it is null.                        *)
C26_HoveredConsistency ==
  /\ hoveredComponent # NoHover <=> highlightedMeshRef # NullMesh
  /\ highlightedMeshRef # NullMesh =>
       /\ highlightedMeshRef[1] \in metadataUD
       /\ hoveredComponent =
            ComponentInfo(uuid[highlightedMeshRef[1]], highlightedMeshRef)

(* the mesh that has a metadata record is highlighted and its record's     *)
(* node id is published                                                    *)
C26_Witness ==
  /\ highlightedMeshRef # NullMesh
  /\ hoveredComponent.uuid = highlightedMeshRef
  /\ hoveredComponent.nodeId = 1

(* a pointer event has just been handled *)
PointerStep == call.fn = "pointer" /\ call'.tick # call.tick
(* no intersection of the list is a mesh *)
NoMeshHit(hs) == \A i \in 1..Len(hs) : ~IsMesh(hs[i])
(* the nearest intersection of the list that is a mesh *)
NearestMesh(hs) ==
  hs[CHOOSE i \in 1..Len(hs) :
       IsMesh(hs[i]) /\ \A j \in 1..(i - 1) : ~IsMesh(hs[j])]

(* C27: Switch A to B.  A pointer-move that arrives in Highlighted(A) and  *)
(* hits another mesh B gives A its saved material back and clears A's      *)
(* slot, saves the material B had in B's slot, gives B clones of the       *)
(* highlight template (one, or one per entry of its material array),       *)
(* and ends in Highlighted(B) publishing B's ComponentInfo.                *)
C27_SwitchHighlight ==
  [][(/\ PointerStep
      /\ highlightedMeshRef # NullMesh
      /\ highlightedMeshRef' # NullMesh
      /\ highlightedMeshRef' # highlightedMeshRef) =>
       LET A == highlightedMeshRef
           B == highlightedMeshRef'
       IN /\ material'[A] = originalMaterial[A]
          /\ originalMaterial'[A] = Absent
          /\ originalMaterial'[B] = material[B]
          /\ material'[B].arr = material[B].arr
          /\ Len(material'[B].mats) = Len(material[B].mats)
          /\ \A mat \in MatsOf(material'[B]) : IsClone(mat)
          /\ \A mesh \in Meshes \ {B} : ~Substituted(mesh)'
          /\ hoveredComponent' = ComponentInfo(uuid[B[1]], B)]_vars

(* the pointer moved from the highlighted mesh 1 to mesh 2, which is now   *)
(* highlighted                                                             *)
C27_Witness ==
  /\ call.fn = "pointer"
  /\ call.event = "move"
  /\ call.prev = <<1, 1>>
  /\ highlightedMeshRef = <<1, 2>>
  /\ material[<<1, 1>>] = LoadedMaterial(<<1, 1>>)
  /\ originalMaterial[<<1, 2>>] = LoadedMaterial(<<1, 2>>)

(* C28: Re-affirm no-op.  A pointer-move whose hit is the mesh already     *)
(* highlighted clones nothing and changes no mesh material and no saved    *)
(* slot, it republishes that mesh's ComponentInfo; and every pointer event *)
(* clones the template only when it enters Highlighted(mesh) from Idle or  *)
(* from another mesh, then once per material of that mesh.                 *)
C28_ReaffirmNoOp ==
  [][PointerStep =>
       /\ (/\ call'.event = "move"
           /\ ~NoMeshHit(call'.hits)
           /\ NearestMesh(call'.hits) = highlightedMeshRef) =>
            /\ call'.clones = 0
            /\ material' = material
            /\ originalMaterial' = originalMaterial
            /\ highlightedMeshRef' = highlightedMeshRef
            /\ hoveredComponent' =
                 ComponentInfo(uuid[highlightedMeshRef[1]], highlightedMeshRef)
       /\ call'.clones =
            (IF highlightedMeshRef' # NullMesh
                /\ highlightedMeshRef' # highlightedMeshRef
             THEN Len(material[highlightedMeshRef'].mats) ELSE 0)]_vars

(* the latest pointer-move hit the mesh that was already highlighted *)
C28_Witness ==
  /\ call.fn = "pointer"
  /\ call.event = "move"
  /\ call.prev = <<1, 1>>
  /\ call.hits = <<Grid(1), <<1, 1>>>>
  /\ highlightedMeshRef = <<1, 1>>
  /\ call.clones = 0

(* C29: Clear transitions.  A pointer-move without a mesh hit and a         *)
(* pointer-leave end in Idle with hoveredComponent = null; arriving in      *)
(* Highlighted(A) they give A its saved material back and clear its slot,   *)
(* arriving in Idle they change no mesh material and no saved slot.         *)
C29_ClearTransitions ==
  [][(PointerStep /\ (call'.event = "leave" \/ NoMeshHit(call'.hits))) =>
       /\ highlightedMeshRef' = NullMesh
       /\ hoveredComponent' = NoHover
       /\ \A mesh \in Meshes : originalMaterial'[mesh] = Absent
       /\ IF highlightedMeshRef # NullMesh
          THEN /\ material'[highlightedMeshRef] =
                    originalMaterial[highlightedMeshRef]
               /\ \A mesh \in Meshes \ {highlightedMeshRef} :
                    material'[mesh] = material[mesh]
          ELSE /\ material' = material
               /\ originalMaterial' = originalMaterial]_vars

(* a pointer-move that hit the grid only arrived while mesh 1 was          *)
(* highlighted and left the state Idle                                     *)
C29_Witness ==
  /\ call.fn = "pointer"
  /\ call.event = "move"
  /\ call.hits = <<Grid(1)>>
  /\ call.prev = <<1, 1>>
  /\ Idle
  /\ material[<<1, 1>>] = LoadedMaterial(<<1, 1>>)

(* C30: Hit selection.  A pointer-move highlights the nearest intersection *)
(* that is a mesh, skipping non-mesh intersections such as the grid even   *)
(* when they are nearer than every mesh, and is a miss (Idle) when no      *)
(* intersection is a mesh.                                                 *)
C30_HitSelection ==
  [][(PointerStep /\ call'.event = "move") =>
       highlightedMeshRef' =
         (IF NoMeshHit(call'.hits) THEN NullMesh
          ELSE NearestMesh(call'.hits))]_vars

(* the grid was nearer than mesh 2 and mesh 2 was chosen *)
C30_Witness ==
  /\ call.fn = "pointer"
  /\ call.event = "move"
  /\ call.hits = <<Grid(1), <<1, 2>>>>
  /\ highlightedMeshRef = <<1, 2>>

(* C31: revert frame condition.  revert on a mesh without a saved material *)
(* changes nothing; revert on a mesh with a saved material disposes the    *)
(* materials the mesh has at that moment (highlight clones) and no other,  *)
(* gives the mesh its saved original, clears its slot and leaves every     *)
(* other mesh, the highlighted-mesh ref and the published component as     *)
(* they were.                                                              *)
C31_RevertFrame ==
  [][(call'.fn = "revert" /\ call'.tick # call.tick) =>
       LET mesh == call'.mesh
           after == call'.after
       IN IF originalMaterial[mesh] = Absent
          THEN after = HL
          ELSE /\ after.disposed = disposed \cup MatsOf(material[mesh])
               /\ \A mat \in MatsOf(material[mesh]) : IsClone(mat)
               /\ after.material[mesh] = originalMaterial[mesh]
               /\ after.originalMaterial[mesh] = Absent
               /\ \A other \in Meshes \ {mesh} :
                    /\ after.material[other] = material[other]
                    /\ after.originalMaterial[other] = originalMaterial[other]
               /\ after.highlightedMeshRef = highlightedMeshRef
               /\ after.hoveredComponent = hoveredComponent
               /\ after.clones = 0]_vars

(* revert was called on the highlighted mesh with a material array: both   *)
(* clones are disposed and the array is back                               *)
C31_Witness ==
  /\ call.fn = "revert"
  /\ call.mesh = <<1, 1>>
  /\ highlightedMeshRef = <<1, 1>>
  /\ originalMaterial[<<1, 1>>].arr
  /\ call.after.material[<<1, 1>>] = LoadedMaterial(<<1, 1>>)
  /\ Cardinality(call.after.disposed \ disposed) = 2

(* revert was called on a mesh that is not highlighted *)
C31_WitnessNoOp ==
  /\ call.fn = "revert"
  /\ call.mesh = <<1, 2>>
  /\ highlightedMeshRef = <<1, 1>>
  /\ call.after = HL

(* C32: Only clones are disposed.  No mesh ever has the highlight-material *)
(* template of a session as its material or in its saved slot, the         *)
(* template of a live session is not disposed, and every material that     *)
(* was disposed is a clone made by applyHighlight: no material an asset    *)
(* came with is disposed, also when the meshes share one material object.  *)
C32_OnlyClonesDisposed ==
  /\ \A mesh \in Meshes, s \in Sessions :
       highlightMaterialTemplate(s) \notin
         MatsOf(material[mesh]) \cup MatsOf(originalMaterial[mesh])
  /\ \A s \in live : s \notin templateDisposed
  /\ \A mat \in disposed :
       /\ IsClone(mat)
       /\ \A s \in Sessions : mat # highlightMaterialTemplate(s)
  /\ \A mesh \in Meshes :
       MatsOf(LoadedMaterial(mesh)) \cap disposed = {}

(* in the live session whose meshes share one material object, a highlight *)
(* was applied and reverted: a clone is disposed, the shared material is   *)
(* back on both meshes                                                     *)
C32_Witness ==
  /\ CurrentLive
  /\ uuid[Current] = "A"
  /\ pc[Current] = "loaded"
  /\ Idle
  /\ disposed # {}
  /\ material[<<Current, 1>>] = material[<<Current, 2>>]
  /\ material[<<Current, 1>>] = LoadedMaterial(<<Current, 1>>)

(* C33: No highlight before the model is attached.  While the load of the  *)
(* session created last has not completed successfully (in flight or       *)
(* failed), no mesh is highlighted and hoveredComponent is null, whatever  *)
(* pointer events arrived meanwhile.                                       *)
C33_NoHighlightBeforeLoad ==
  (Current = NoSession \/ pc[Current] # "loaded") =>
    /\ Idle
    /\ hoveredComponent = NoHover
    /\ \A mesh \in Meshes : originalMaterial[mesh] = Absent

(* the second session's load is in flight, its handlers are registered and *)
(* its scene holds no mesh; the first session's model was loaded and a     *)
(* highlight on it was reverted                                            *)
C33_Witness ==
  /\ CurrentLive
  /\ Current = 2
  /\ pc[Current] = "decode"
  /\ pc[1] = "loaded"
  /\ Current \in pointerReg
  /\ SceneObjects(sceneRef) = {Grid(Current)}
  /\ disposed # {}
  /\ Idle

(* the index of the call has been built *)
Indexed == call.fn = "metadataByName" /\ call.done
(* the key the specification gives a record that has a name or an id *)
SpecKey(node) ==
  IF node.name # "" THEN node.name ELSE "node_" \o ToString(node.id)
Keyed(node) == node.name # "" \/ node.id # Null

(* C34: MetadataIndex keys.  Every record with a non-empty name is indexed *)
(* under that name, every record without a name and with a numeric id      *)
(* (0 included) under "node_" followed by the id; every entry of the index *)
(* holds a record that produced its key, the last such record in input     *)
(* order.                                                                  *)
C34_IndexKeys ==
  Indexed =>
    LET nodes == call.metadata.nodes
        index == call.index
    IN /\ \A i \in 1..Len(nodes) :
            nodes[i].name # "" => nodes[i].name \in DOMAIN index
       /\ \A i \in 1..Len(nodes) :
            (nodes[i].name = "" /\ nodes[i].id # Null) =>
              ("node_" \o ToString(nodes[i].id)) \in DOMAIN index
       /\ \A k \in DOMAIN index :
            \E i \in 1..Len(nodes) :
              /\ Keyed(nodes[i])
              /\ SpecKey(nodes[i]) = k
              /\ index[k] = nodes[i]
              /\ \A j \in (i + 1)..Len(nodes) :
                   Keyed(nodes[j]) => SpecKey(nodes[j]) # k

(* a record named "node_1" is followed by a nameless record with id 1:     *)
(* both have the key "node_1" and the later one is returned                *)
C34_Witness ==
  /\ Indexed
  /\ Len(call.metadata.nodes) = 2
  /\ call.metadata.nodes[1].name = "node_1"
  /\ call.metadata.nodes[2].name = ""
  /\ call.metadata.nodes[2].id = 1
  /\ call.metadata.nodes[1] # call.metadata.nodes[2]
  /\ DOMAIN call.index = {"node_1"}
  /\ call.index["node_1"] = call.metadata.nodes[2]

(* a nameless record with id 0 is found under "node_0" *)
C34_WitnessZero ==
  /\ Indexed
  /\ "node_0" \in DOMAIN call.index

TargetSize == 5
(* the normalisation of the call has run *)
Normalized == call.fn = "normalize" /\ call.done
(* twice the extent of the normalised box on axis i *)
ExtentTwice(i) ==
  FracAdd(BoxFaceTwice(call.box, call.scale, call.position, i, 1),
          FracTimes(BoxFaceTwice(call.box, call.scale, call.position, i, 0 - 1),
                    0 - 1))

(* C35: Normalization result.  For a box with largest extent maxDim > 0    *)
(* and centre c the root gets the scale targetSize / maxDim on every axis  *)
(* and the position -(c * scale); the box of the model is then centred at  *)
(* the origin and its largest extent is targetSize.                        *)
C35_NormalizationResult ==
  (Normalized /\ MaxDim(call.box.size) > 0) =>
    /\ \A i \in 1..3 :
         /\ call.scale[i] = Frac(TargetSize, MaxDim(call.box.size))
         /\ call.position[i] =
              FracTimes(call.scale[i], 0 - call.box.center[i])
         /\ FracAdd(BoxFaceTwice(call.box, call.scale, call.position, i, 1),
                    BoxFaceTwice(call.box, call.scale, call.position, i, 0 - 1))
              = Frac(0, 1)
         /\ FracLeq(ExtentTwice(i), Frac(2 * TargetSize, 1))
    /\ \E i \in 1..3 : ExtentTwice(i) = Frac(2 * TargetSize, 1)

(* a box of size (1, 3, 2) around (2, -1, 0) was normalised: the scale is  *)
(* 5/3 and the root is moved by (-10/3, 5/3, 0)                            *)
C35_Witness ==
  /\ Normalized
  /\ call.box.size = <<1, 3, 2>>
  /\ call.box.center = <<2, 0 - 1, 0>>
  /\ call.scale = <<(<<5, 3>>), (<<5, 3>>), (<<5, 3>>)>>
  /\ call.position = <<(<<0 - 10, 3>>), (<<5, 3>>), (<<0, 1>>)>>

C37_ResizeFrame ==
  [][(call'.fn = "resize" /\ call'.tick # call.tick) =>
       /\ UNCHANGED <<sceneModel, material, originalMaterial,
                      highlightedMeshRef, disposed, loading, error,
                      hoveredComponent, cameraPos, target, children, pc>>
       /\ call'.session \in live =>
            /\ call'.session \in resizeReg
            /\ call'.acted
            /\ call'.aspect[1] * call'.client[2] =
                 call'.aspect[2] * call'.client[1]
            /\ call'.surface = call'.client
       /\ ~containerRef =>
            /\ ~call'.acted
            /\ call'.aspect = NoVec
            /\ call'.surface = NoVec]_vars

(* the live session, a mesh of which is highlighted, was resized to 3 x 4 *)
C37_Witness ==
  /\ call.fn = "resize"
  /\ call.session = Current
  /\ CurrentLive
  /\ highlightedMeshRef # NullMesh
  /\ call.client = <<3, 4>>
  /\ call.aspect = <<3, 4>>
  /\ call.surface = <<3, 4>>

(* handleResize ran after the unmount and set nothing *)
C37_WitnessDetached ==
  /\ call.fn = "resize"
  /\ ~containerRef
  /\ ~call.acted

(* the request got a success status and a JSON body that has every key the *)
(* schema requires                                                         *)
ValidAnswer ==
  /\ call.net = "response"
  /\ call.status \in 200..299
  /\ call.body.json
  /\ {"uuid", "status"} \subseteq call.body.keys

(* C38: fetchAndValidate never rejects.  Whatever the request meets        *)
(* (network failure, non-success status, a body that is no JSON, a body    *)
(* that fails the schema, a valid body), the returned promise is never     *)
(* rejected and is eventually fulfilled, with success = true and the       *)
(* parsed data exactly when the status is a success and the body passes    *)
(* the schema, and with success = false and an error string otherwise.     *)
C38_NeverRejects ==
  /\ [](call.fn = "fetchAndValidate" => call.promise.state # "rejected")
  /\ (call.fn = "fetchAndValidate") ~> (call.promise.state = "fulfilled")
  /\ [](call.fn = "fetchAndValidate" /\ call.promise.state = "fulfilled" =>
          LET value == call.promise.value
          IN /\ value.success <=> ValidAnswer
             /\ value.success =>
                  /\ DOMAIN value = {"success", "data"}
                  /\ value.data.keys = {"uuid", "status"}
             /\ ~value.success =>
                  /\ DOMAIN value = {"success", "error"}
                  /\ value.error \in STRING)

(* a 200 answer whose body has an unknown key besides the required ones    *)
(* was parsed: success, and the data has the schema's keys only            *)
C38_Witness ==
  /\ call.fn = "fetchAndValidate"
  /\ call.pc = "done"
  /\ call.status = 200
  /\ call.body.keys = {"uuid", "status", "extra"}
  /\ call.promise.state = "fulfilled"
  /\ call.promise.value.success
  /\ call.promise.value.data.keys = {"uuid", "status"}

(* fetch rejected with a value that is no Error: success = false with the  *)
(* fixed message                                                           *)
C38_WitnessRejected ==
  /\ call.fn = "fetchAndValidate"
  /\ call.net = "reject"
  /\ call.promise = Fulfilled([success |-> FALSE, error |-> "Unknown error"])

(* a handleUpload call is running / has just ended without success *)
UploadRunning == call.fn = "handleUpload" /\ call.pc # "idle"
UploadFailedStep ==
  /\ UploadRunning
  /\ call'.pc = "idle"
  /\ call'.done # {"presign", "put", "finish"}

(* C39: Upload handshake ordering.  The PUT is sent only after the         *)
(* presigned-URL request succeeded, the confirmation only after the PUT    *)
(* succeeded, the file id is published only by a call all three steps of   *)
(* which succeeded; a failing step publishes an error, sends nothing more  *)
(* and publishes no id; uploading is true while the call runs and false    *)
(* after every outcome.                                                    *)
C39_UploadOrdering ==
  /\ [](call.fn = "handleUpload" =>
          /\ "put" \in call.sent => "presign" \in call.done
          /\ "finish" \in call.sent => "put" \in call.done
          /\ call.uploading <=> call.pc # "idle")
  /\ [][call.fn = "handleUpload" =>
          /\ call'.uploadedFileId # call.uploadedFileId =>
               /\ call'.done = {"presign", "put", "finish"}
               /\ call'.sent = {"presign", "put", "finish"}
               /\ call'.error = "null"
          /\ UploadFailedStep =>
               /\ call'.error # "null"
               /\ call'.sent = call.sent
               /\ call'.uploadedFileId = call.uploadedFileId
               /\ ~call'.uploading
          /\ (UploadRunning /\ call'.pc = "idle") => ~call'.uploading]_vars

(* the second upload failed at the PUT after the first had succeeded: the  *)
(* confirmation was not sent, an error is shown, uploading is false        *)
C39_Witness ==
  /\ call.fn = "handleUpload"
  /\ call.uploads = 2
  /\ call.pc = "idle"
  /\ call.sent = {"presign", "put"}
  /\ call.done = {"presign"}
  /\ call.error = "Failed to upload file"
  /\ call.uploadedFileId = "file-1"
  /\ ~call.uploading

(* an upload went through all three steps *)
C39_WitnessSuccess ==
  /\ call.fn = "handleUpload"
  /\ call.pc = "idle"
  /\ call.done = {"presign", "put", "finish"}
  /\ call.uploadedFileId = "file-1"
  /\ call.error = "null"
  /\ ~call.uploading

====
